---- MODULE Spec2Model ----
(***************************************************************************)
(* motormongo: the descriptor-based field layer, Document construction     *)
(* and serialisation, and the Document persistence operations over the     *)
(* backing collection.                                                     *)
(*                                                                         *)
(* Python values are tagged records ([t |-> "str", v |-> ...]); a Python   *)
(* dict is a TLA+ function whose DOMAIN is the set of keys present; a      *)
(* Python str is a sequence of characters.                                 *)
(***************************************************************************)
EXTENDS Integers, Sequences, FiniteSets, TLC

(* ------------------------------ bounds -------------------------------- *)
\* number of ObjectIds that can be generated in one behaviour
MaxOid == 2
\* number of operations in one behaviour: the clock ticks with each of them
MaxClock == 3
\* number of documents the collection may hold
MaxDocs == 2
\* number of records in one insert_many batch
MaxBatch == 2

(* --------------------------- Python values ---------------------------- *)
NoneV == [t |-> "none"]
PyStr(s) == [t |-> "str", v |-> s]
PyInt(n) == [t |-> "int", v |-> n]
PyBool(b) == [t |-> "bool", v |-> b]
PyFloat(n) == [t |-> "float", v |-> n]
PyDatetime(n) == [t |-> "datetime", v |-> n]
Oid(n) == [t |-> "oid", v |-> n]
EnumV(e, m) == [t |-> "enum", e |-> e, m |-> m]
ListV(s) == [t |-> "list", v |-> s]
DictV(d) == [t |-> "dict", v |-> d]
InstV(c, d) == [t |-> "inst", c |-> c, d |-> d]

EmptyDict == <<>>
Put(d, k, v) == [x \in (DOMAIN d) \cup {k} |-> IF x = k THEN v ELSE d[x]]
Merge(d, e) == [x \in (DOMAIN d) \cup (DOMAIN e) |-> IF x \in DOMAIN e THEN e[x] ELSE d[x]]
Without(d, ks) == [x \in (DOMAIN d) \ ks |-> d[x]]
Get(d, k, dflt) == IF k \in DOMAIN d THEN d[k] ELSE dflt

\* bool is a subclass of int: True == 1, False == 0
Num(v) == IF v.t = "bool" THEN (IF v.v THEN 1 ELSE 0) ELSE v.v

\* Python truthiness of a value
Truthy(v) ==
    CASE v.t = "none" -> FALSE
      [] v.t = "bool" -> v.v
      [] v.t \in {"int", "float"} -> v.v # 0
      [] v.t \in {"str", "list"} -> Len(v.v) > 0
      [] v.t = "dict" -> DOMAIN v.v # {}
      [] OTHER -> TRUE

Ok(v) == [ok |-> TRUE, v |-> v]
Raise(e) == [ok |-> FALSE, err |-> e]

(* ------------------------- bson.ObjectId ------------------------------ *)
HexDigits == <<"0", "1", "2", "3", "4", "5", "6", "7", "8", "9", "a", "b", "c", "d", "e", "f">>
\* str(ObjectId): the hexadecimal rendering of the identity
OidStr(n) == <<HexDigits[(n \div 16) + 1], HexDigits[(n % 16) + 1]>>
IsOidStr(s) == \E n \in 0..255 : OidStr(n) = s
ParseOid(s) == CHOOSE n \in 0..255 : OidStr(n) = s
\* ObjectId(v): None generates a fresh identity, a str is parsed
ObjectId(v, fresh) ==
    CASE v.t = "none" -> Ok(Oid(fresh))
      [] v.t = "oid" -> Ok(v)
      [] v.t = "str" -> IF IsOidStr(v.v) THEN Ok(Oid(ParseOid(v.v))) ELSE Raise("InvalidId")
      [] OTHER -> Raise("TypeError")

(* --------------------------- enumerations ----------------------------- *)
s_active == <<"a", "c", "t", "i", "v", "e">>
s_inactive == <<"i", "n", "a", "c", "t", "i", "v", "e">>
\* an Enum subclass: member |-> value
Status == [ACTIVE |-> PyStr(s_active), INACTIVE |-> PyStr(s_inactive)]
Gender == [MALE |-> PyStr(<<"m", "a", "l", "e">>), FEMALE |-> PyStr(<<"f", "e", "m", "a", "l", "e">>)]
\* an Enum subclass with integer values, declared by a caller of the library
Level == [LOW |-> PyInt(1), HIGH |-> PyInt(2)]
Enums == [Status |-> Status, Gender |-> Gender, Level |-> Level]
\* member.value
EnumValue(v) == Enums[v.e][v.m]

(* ------------------------- field declarations ------------------------- *)
Field ==
    [kind |-> "Field", required |-> FALSE, unique |-> FALSE, default |-> NoneV,
     min_length |-> NoneV, max_length |-> NoneV, min_value |-> NoneV, max_value |-> NoneV,
     enum |-> "", field |-> NoneV, document |-> "", return_as_list |-> TRUE,
     auto_now |-> FALSE, auto_now_add |-> FALSE]
StringField == [Field EXCEPT !.kind = "String"]
IntegerField == [Field EXCEPT !.kind = "Integer"]
BooleanField == [Field EXCEPT !.kind = "Boolean"]
FloatField == [Field EXCEPT !.kind = "Float"]
DateTimeField == [Field EXCEPT !.kind = "DateTime"]
EnumField(e) == [Field EXCEPT !.kind = "Enum", !.enum = e]
GeoJSONField == [Field EXCEPT !.kind = "GeoJSON"]
ListField(item) == [Field EXCEPT !.kind = "List", !.field = item]
ReferenceField(c) == [Field EXCEPT !.kind = "Reference", !.document = c]
EmbeddedDocumentField(c) == [Field EXCEPT !.kind = "EmbeddedDocument", !.document = c]

\* the `type` each field kind hands to Field.__init__
FieldTypes(f) ==
    CASE f.kind = "String" -> {"str"}
      [] f.kind = "Integer" -> {"int"}
      [] f.kind = "Boolean" -> {"bool"}
      [] f.kind = "Float" -> {"float"}
      [] f.kind = "DateTime" -> {"datetime", "date", "str"}
      [] f.kind = "Enum" -> {"enum"}
      [] f.kind = "GeoJSON" -> {"list", "tuple", "dict"}
      [] f.kind = "List" -> {"list"}
      [] f.kind = "Reference" -> {"oid"}
      [] f.kind = "EmbeddedDocument" -> {"dict", "embedded"}
      [] OTHER -> {}

\* the field kinds whose class defines a validate() method
HasValidate(f) ==
    f # NoneV /\ f.kind \in {"String", "Integer", "Boolean", "Enum", "Reference", "EmbeddedDocument"}

(* ------------------------- class declarations ------------------------- *)
s_somesite == <<"s", "i", "t", "e">>
s_johndoe == <<"j", "o", "h", "n">>
\* a class: order is the iteration order of Document.__init__ (base classes
\* first), decl the Field attributes, own the attributes of the class's own
\* __dict__, Meta the attributes of the nested Meta (if any)
Profile ==
    [order |-> <<"bio", "website">>,
     decl |-> [bio |-> StringField,
               website |-> [StringField EXCEPT !.default = PyStr(s_somesite)]],
     own |-> {"bio", "website"}, subclasses |-> <<>>, embedded |-> TRUE, hasMeta |-> FALSE, Meta |-> EmptyDict]
\* User, with the fields that the behaviours assign: a field that is given no
\* value and has no default is skipped by Document.__init__
User ==
    [order |-> <<"username", "location", "last_login", "age", "alive", "status",
                 "favorite_colors", "net_worth", "profile">>,
     decl |-> [username |-> [StringField EXCEPT !.min_length = PyInt(3), !.max_length = PyInt(50)],
               location |-> [GeoJSONField EXCEPT !.return_as_list = TRUE],
               last_login |-> [DateTimeField EXCEPT !.auto_now = TRUE],
               age |-> [IntegerField EXCEPT !.min_value = PyInt(5), !.max_value = PyInt(100)],
               alive |-> [BooleanField EXCEPT !.default = PyBool(TRUE)],
               status |-> EnumField("Status"),
               favorite_colors |-> ListField(StringField),
               net_worth |-> [FloatField EXCEPT !.min_value = PyFloat(5), !.max_value = PyInt(10)],
               profile |-> EmbeddedDocumentField("Profile")],
     own |-> {"username", "location", "last_login", "age", "alive", "status",
              "favorite_colors", "net_worth", "profile"},
     subclasses |-> <<>>, embedded |-> FALSE, hasMeta |-> TRUE,
     Meta |-> [collection |-> "users",
               indexes |-> <<[fields |-> <<<<"created_at", "-1">>>>, name |-> <<>>]>>,
               created_at_timestamp |-> TRUE, updated_at_timestamp |-> TRUE]]
UserDetails ==
    [order |-> <<"gender", "user", "dob">>,
     decl |-> [gender |-> EnumField("Gender"),
               user |-> ReferenceField("User"),
               dob |-> DateTimeField],
     own |-> {"gender", "user", "dob"}, subclasses |-> <<>>, embedded |-> FALSE, hasMeta |-> TRUE,
     Meta |-> [collection |-> "user_details",
               created_at_timestamp |-> TRUE, updated_at_timestamp |-> TRUE]]
\* a class whose Meta declares indexes only
Session ==
    [order |-> <<"is_active", "created_at">>,
     decl |-> [is_active |-> [BooleanField EXCEPT !.default = PyBool(FALSE)],
               created_at |-> [DateTimeField EXCEPT !.default = PyDatetime(0)]],
     own |-> {"is_active", "created_at"}, subclasses |-> <<>>, embedded |-> FALSE, hasMeta |-> TRUE,
     Meta |-> [indexes |-> <<[fields |-> <<<<"created_at", "1">>>>, name |-> <<>>]>>]]
\* a class with a required field without a default
Example ==
    [order |-> <<"name", "age">>,
     decl |-> [name |-> [StringField EXCEPT !.required = TRUE],
               age |-> IntegerField],
     own |-> {"name", "age"}, subclasses |-> <<>>, embedded |-> FALSE, hasMeta |-> FALSE, Meta |-> EmptyDict]
\* a class with a required field with a default
ExampleDefault ==
    [order |-> <<"name", "age">>,
     decl |-> [name |-> [StringField EXCEPT !.required = TRUE, !.default = PyStr(s_johndoe)],
               age |-> IntegerField],
     own |-> {"name", "age"}, subclasses |-> <<>>, embedded |-> FALSE, hasMeta |-> FALSE, Meta |-> EmptyDict]
\* a class declared by a caller of the library: an EnumField over an Enum
\* with integer values, ListFields over the item-field kinds, a GeoJSONField
\* that is not returned as a list
Reading ==
    [order |-> <<"level", "scores", "levels", "spot", "tags">>,
     decl |-> [level |-> EnumField("Level"),
               scores |-> ListField([FloatField EXCEPT !.min_value = PyInt(0)]),
               levels |-> ListField(EnumField("Status")),
               spot |-> [GeoJSONField EXCEPT !.return_as_list = FALSE],
               tags |-> ListField(NoneV)],
     own |-> {"level", "scores", "levels", "spot", "tags"},
     subclasses |-> <<>>, embedded |-> FALSE, hasMeta |-> FALSE, Meta |-> EmptyDict]

\* a base class with two subclasses mapped to two collections: order lists
\* the inherited fields first, own only the fields of the class itself
Item ==
    [order |-> <<"name", "cost", "high_value">>,
     decl |-> [name |-> StringField, cost |-> FloatField,
               high_value |-> [BooleanField EXCEPT !.default = PyBool(FALSE)]],
     own |-> {"name", "cost", "high_value"},
     subclasses |-> <<"Book", "Electronics">>, embedded |-> FALSE,
     hasMeta |-> FALSE, Meta |-> EmptyDict]
Book ==
    [order |-> <<"name", "cost", "high_value", "title", "author", "isbn">>,
     decl |-> [name |-> StringField, cost |-> FloatField,
               high_value |-> [BooleanField EXCEPT !.default = PyBool(FALSE)],
               title |-> StringField, author |-> StringField, isbn |-> StringField],
     own |-> {"title", "author", "isbn"},
     subclasses |-> <<>>, embedded |-> FALSE,
     hasMeta |-> TRUE, Meta |-> [collection |-> "books"]]
Electronics ==
    [order |-> <<"name", "cost", "high_value", "warranty_period", "brand">>,
     decl |-> [name |-> StringField, cost |-> FloatField,
               high_value |-> [BooleanField EXCEPT !.default = PyBool(FALSE)],
               warranty_period |-> StringField, brand |-> StringField],
     own |-> {"warranty_period", "brand"},
     subclasses |-> <<>>, embedded |-> FALSE,
     hasMeta |-> FALSE, Meta |-> EmptyDict]

\* a class declared by a caller of the library: a unique field, a declared
\* index with an explicit name and one with neither a name nor the
\* ascending direction
Account ==
    [order |-> <<"email", "region">>,
     decl |-> [email |-> [StringField EXCEPT !.unique = TRUE],
               region |-> StringField],
     own |-> {"email", "region"}, subclasses |-> <<>>, embedded |-> FALSE, hasMeta |-> TRUE,
     Meta |-> [indexes |-> <<[fields |-> <<<<"region", "1">>>>, name |-> <<"by", "region">>],
                             [fields |-> <<<<"email", "-1">>>>, name |-> <<>>]>>]]

\* the registered classes, by name
Classes ==
    [Profile |-> Profile, User |-> User, UserDetails |-> UserDetails, Session |-> Session,
     Example |-> Example, ExampleDefault |-> ExampleDefault, Reading |-> Reading,
     Item |-> Item, Book |-> Book, Electronics |-> Electronics, Account |-> Account]

\* instance attributes that to_dict() leaves out: those whose name contains
\* "__" (the type tag and the name-mangled collection name), and "Meta"
InternalKeys == {"__type", "_Document__collection", "Meta"}

\* isinstance(v, ty)
IsInstance(v, ty) ==
    CASE ty = "int" -> v.t \in {"int", "bool"}
      [] ty = "date" -> v.t \in {"date", "datetime"}
      [] ty = "embedded" -> v.t = "inst" /\ Classes[v.c].embedded
      [] OTHER -> v.t = ty

(* ------------------------------ fields -------------------------------- *)
\* Field.__set__: the required check, the type check, then the store
Field_set(f, name, d, value) ==
    IF f.required /\ value = NoneV THEN Raise("ValueError")
    ELSE IF ~(\E ty \in FieldTypes(f) : IsInstance(value, ty)) THEN Raise("TypeError")
    ELSE Ok(Put(d, name, value))

\* `super().__set__(obj, value)` of the field kinds, reached when the
\* validation r before it did not raise
Field_store(f, name, d, r) == IF r.ok THEN Field_set(f, name, d, r.v) ELSE r

StringField_validate(f, value) ==
    IF ~IsInstance(value, "str") THEN Raise("StringValueError")
    ELSE IF f.min_length # NoneV /\ Len(value.v) < Num(f.min_length) THEN Raise("StringLengthError")
    ELSE IF f.max_length # NoneV /\ Len(value.v) > Num(f.max_length) THEN Raise("StringLengthError")
    ELSE Ok(value)

StringField_set(f, name, d, value) ==
    Field_store(f, name, d, IF value # NoneV THEN StringField_validate(f, value) ELSE Ok(value))

IntegerField_validate(f, value) ==
    IF value = NoneV THEN Ok(value)
    ELSE IF ~IsInstance(value, "int") THEN Raise("IntegerValueError")
    ELSE IF f.min_value # NoneV /\ Num(value) < Num(f.min_value) THEN Raise("IntegerRangeError")
    ELSE IF f.max_value # NoneV /\ Num(value) > Num(f.max_value) THEN Raise("IntegerRangeError")
    ELSE Ok(value)

IntegerField_set(f, name, d, value) ==
    Field_store(f, name, d, IntegerField_validate(f, value))

BooleanField_validate(f, value) ==
    IF value # NoneV /\ ~IsInstance(value, "bool") THEN Raise("BooleanFieldError")
    ELSE Ok(value)

BooleanField_set(f, name, d, value) ==
    Field_store(f, name, d, BooleanField_validate(f, value))

\* FloatField has no validate(): the checks live in __set__
FloatField_set(f, name, d, value) ==
    IF value = NoneV THEN Field_set(f, name, d, value)
    ELSE IF ~(IsInstance(value, "float") \/ IsInstance(value, "int")) THEN Raise("FloatValueError")
    ELSE IF f.min_value # NoneV /\ Num(value) < Num(f.min_value) THEN Raise("FloatRangeError")
    ELSE IF f.max_value # NoneV /\ Num(value) > Num(f.max_value) THEN Raise("FloatRangeError")
    ELSE Field_set(f, name, d, PyFloat(Num(value)))

\* datetime.strptime over the accepted formats: the date strings of the
\* model, each with the datetime it parses to
s_date1 == <<"0", "1", "/", "0", "1">>
DateStrings == [x \in {s_date1} |-> 1]
DateTimeField_handle_string_or_date_input(f, value) ==
    CASE value.t = "str" ->
            IF value.v \in DOMAIN DateStrings THEN Ok(PyDatetime(DateStrings[value.v]))
            ELSE Raise("DateTimeFormatError")
      [] value.t = "date" -> Ok(PyDatetime(value.v))
      [] value.t = "datetime" -> Ok(value)
      [] OTHER -> Raise("DateTimeValueError")

DateTimeField_set(f, name, d, value, now) ==
    IF f.auto_now_add /\ ~Truthy(Get(d, name, NoneV)) THEN Field_set(f, name, d, PyDatetime(now))
    ELSE IF f.auto_now_add THEN Field_set(f, name, d, d[name])
    ELSE Field_store(f, name, d,
                     IF value # NoneV THEN DateTimeField_handle_string_or_date_input(f, value)
                     ELSE Ok(value))

EnumField_validate(f, value) ==
    IF value.t = "str" THEN
        IF \E m \in DOMAIN Enums[f.enum] : Enums[f.enum][m] = value
        THEN Ok(EnumV(f.enum, CHOOSE m \in DOMAIN Enums[f.enum] : Enums[f.enum][m] = value))
        ELSE Raise("InvalidEnumValueError")
    ELSE IF value # NoneV /\ ~(value.t = "enum" /\ value.e = f.enum) THEN Raise("InvalidEnumTypeError")
    ELSE Ok(value)

EnumField_set(f, name, d, value) ==
    Field_store(f, name, d, IF value # NoneV THEN EnumField_validate(f, value) ELSE Ok(value))

\* a [longitude, latitude] pair within range
GeoInRange(pair) ==
    /\ -90 <= Num(pair[2]) /\ Num(pair[2]) <= 90
    /\ -180 <= Num(pair[1]) /\ Num(pair[1]) <= 180
GeoPoint(pair) ==
    DictV([type |-> PyStr(<<"P", "o", "i", "n", "t">>), coordinates |-> ListV(pair)])
GeoJSONField_set(f, name, d, value) ==
    IF value = NoneV THEN Field_set(f, name, d, value)
    ELSE IF value.t \in {"list", "tuple"} /\ Len(value.v) = 2 THEN
        IF ~GeoInRange(value.v) THEN Raise("GeoCoordinateError")
        ELSE Field_set(f, name, d, GeoPoint(value.v))
    ELSE IF /\ value.t = "dict"
            /\ Get(value.v, "type", NoneV) = PyStr(<<"P", "o", "i", "n", "t">>)
            /\ Len(Get(value.v, "coordinates", ListV(<<>>)).v) = 2 THEN
        IF ~GeoInRange(value.v["coordinates"].v) THEN Raise("GeoCoordinateError")
        ELSE Field_set(f, name, d, value)
    ELSE Raise("GeoCoordinateError")

(* ------------- construction, composite fields, serialisation ---------- *)
\* camel_to_snake_or_lower(cls.__name__) of the declared classes
SnakeName ==
    [Profile |-> "profile", User |-> "user", UserDetails |-> "user_details",
     Session |-> "session", Example |-> "example", ExampleDefault |-> "example_default",
     Reading |-> "reading", Item |-> "item", Book |-> "book", Electronics |-> "electronics",
     Account |-> "account"]
\* Meta.collection when the class has one, else the snake-case class name
own_collection_name(c) == Get(Classes[c].Meta, "collection", SnakeName[c])
\* Document.get_collection_name(): a class with subclasses gives the list of
\* (subclass, collection name) pairs of its direct subclasses
get_collection_name(c) ==
    IF Classes[c].subclasses # <<>>
    THEN [i \in 1..Len(Classes[c].subclasses) |->
            <<Classes[c].subclasses[i], own_collection_name(Classes[c].subclasses[i])>>]
    ELSE own_collection_name(c)

RECURSIVE Document_init(_, _, _, _)
RECURSIVE SetFields(_, _, _, _, _, _)
RECURSIVE SetFields_next(_, _, _, _, _, _)
RECURSIVE Descriptor_set(_, _, _, _, _, _)
RECURSIVE Field_validate(_, _, _, _)
RECURSIVE to_dict(_, _, _)
RECURSIVE serialize(_, _, _)

ReferenceField_validate(f, value) ==
    IF value.t = "inst" /\ value.c = f.document THEN
        IF "_id" \in DOMAIN value.d THEN ObjectId(value.d["_id"], 0) ELSE Ok(NoneV)
    ELSE IF value.t = "str" THEN
        IF IsOidStr(value.v) THEN Ok(Oid(ParseOid(value.v))) ELSE Raise("ReferenceConversionError")
    ELSE IF value.t = "oid" THEN Ok(value)
    ELSE Raise("ReferenceTypeError")

ReferenceField_set(f, name, d, value) ==
    Field_store(f, name, d, IF value # NoneV THEN ReferenceField_validate(f, value) ELSE Ok(value))

\* `self.document_type(**value)` in EmbeddedDocumentField.validate: any
\* exception r of the construction becomes an EmbeddedDocumentTypeError
EmbeddedDocumentField_construct(f, r) ==
    IF r.ok THEN Ok(InstV(f.document, r.v)) ELSE Raise("EmbeddedDocumentTypeError")

EmbeddedDocumentField_validate(f, value, now, fresh) ==
    IF value.t = "dict" THEN
        EmbeddedDocumentField_construct(f, Document_init(f.document, value.v, now, fresh))
    ELSE IF ~(value.t = "inst" /\ value.c = f.document) THEN Raise("EmbeddedDocumentTypeError")
    ELSE Ok(value)

EmbeddedDocumentField_set(f, name, d, value, now, fresh) ==
    Field_store(f, name, d,
                IF value # NoneV THEN EmbeddedDocumentField_validate(f, value, now, fresh) ELSE Ok(value))

\* item.validate(value) of the field kinds that define validate()
Field_validate(f, value, now, fresh) ==
    CASE f.kind = "String" -> StringField_validate(f, value)
      [] f.kind = "Integer" -> IntegerField_validate(f, value)
      [] f.kind = "Boolean" -> BooleanField_validate(f, value)
      [] f.kind = "Enum" -> EnumField_validate(f, value)
      [] f.kind = "Reference" -> ReferenceField_validate(f, value)
      [] f.kind = "EmbeddedDocument" -> EmbeddedDocumentField_validate(f, value, now, fresh)

\* the end of ListField.__set__ on the validated items rs: one refused item
\* refuses the list
ListField_store(f, name, d, rs) ==
    IF \E i \in DOMAIN rs : ~rs[i].ok THEN Raise("ListItemTypeError")
    ELSE Field_set(f, name, d, ListV([i \in DOMAIN rs |-> rs[i].v]))

\* ListField.__set__: items go through the item field's validate() only
\* when the item field has one; None is not stored at all
ListField_set(f, name, d, value, now, fresh) ==
    IF value = NoneV THEN Ok(d)
    ELSE IF value.t # "list" THEN Raise("ListValueTypeError")
    ELSE IF HasValidate(f.field) THEN
        ListField_store(f, name, d,
                        [i \in 1..Len(value.v) |-> Field_validate(f.field, value.v[i], now, fresh)])
    ELSE Field_set(f, name, d, value)

\* setattr(self, name, value) on a declared field: the descriptor's __set__
Descriptor_set(f, name, d, value, now, fresh) ==
    CASE f.kind = "String" -> StringField_set(f, name, d, value)
      [] f.kind = "Integer" -> IntegerField_set(f, name, d, value)
      [] f.kind = "Boolean" -> BooleanField_set(f, name, d, value)
      [] f.kind = "Float" -> FloatField_set(f, name, d, value)
      [] f.kind = "DateTime" -> DateTimeField_set(f, name, d, value, now)
      [] f.kind = "Enum" -> EnumField_set(f, name, d, value)
      [] f.kind = "GeoJSON" -> GeoJSONField_set(f, name, d, value)
      [] f.kind = "List" -> ListField_set(f, name, d, value, now, fresh)
      [] f.kind = "Reference" -> ReferenceField_set(f, name, d, value)
      [] f.kind = "EmbeddedDocument" -> EmbeddedDocumentField_set(f, name, d, value, now, fresh)

\* one iteration of the loop of Document.__init__: None is skipped without
\* any check, any other value goes through the descriptor
Document_init_field(f, name, d, value, now, fresh) ==
    IF value # NoneV THEN Descriptor_set(f, name, d, value, now, fresh) ELSE Ok(d)

\* the loop of Document.__init__ over the declared fields of cls, from the
\* i-th on: the value is the keyword argument or the field's default
SetFields(cls, i, kwargs, d, now, fresh) ==
    IF i > Len(cls.order) THEN Ok(d)
    ELSE SetFields_next(cls, i, kwargs, now, fresh,
             Document_init_field(cls.decl[cls.order[i]], cls.order[i], d,
                                 Get(kwargs, cls.order[i], cls.decl[cls.order[i]].default),
                                 now, fresh))
\* the next iteration, unless the assignment r raised
SetFields_next(cls, i, kwargs, now, fresh, r) ==
    IF r.ok THEN SetFields(cls, i + 1, kwargs, r.v, now, fresh) ELSE r

\* the start of Document.__init__: the type tag, the collection name and the
\* identity rid (None when no identity is given)
Document_init_id(c, kwargs, now, fresh, rid) ==
    LET d0 == [k \in {"__type", "_Document__collection"} |->
                  IF k = "__type" THEN [t |-> "name", v |-> c]
                  ELSE [t |-> "name", v |-> get_collection_name(c)]]
    IN  IF ~rid.ok THEN rid
        ELSE SetFields(Classes[c], 1, kwargs,
                       IF rid.v = NoneV THEN d0 ELSE Put(d0, "_id", rid.v), now, fresh)

\* Document.__init__(**kwargs): the resulting __dict__, or the exception
Document_init(c, kwargs, now, fresh) ==
    Document_init_id(c, kwargs, now, fresh,
                     IF "_id" \in DOMAIN kwargs \/ "id" \in DOMAIN kwargs
                     THEN ObjectId(Get(kwargs, "_id", NoneV), fresh)
                     ELSE Ok(NoneV))

\* whether Document.__init__(**kwargs) generates a fresh ObjectId
GeneratesId(kwargs) ==
    ("_id" \in DOMAIN kwargs \/ "id" \in DOMAIN kwargs) /\ Get(kwargs, "_id", NoneV) = NoneV

\* Document.from_dict(**kwargs) without subcls
from_dict(c, kwargs, now, fresh) == Document_init(c, kwargs, now, fresh)

\* Document._serialize(value, field_type, id_as_string)
serialize(value, field_type, id_as_string) ==
    IF value.t = "oid" THEN (IF id_as_string THEN PyStr(OidStr(value.v)) ELSE value)
    ELSE IF field_type # NoneV /\ field_type.kind = "GeoJSON" THEN
        IF field_type.return_as_list THEN Get(value.v, "coordinates", NoneV) ELSE value
    ELSE IF value.t = "enum" THEN EnumValue(value)
    ELSE IF value.t = "inst" /\ Classes[value.c].embedded THEN DictV(to_dict(value.c, value.d, id_as_string))
    ELSE IF value.t = "list" THEN
        ListV([i \in 1..Len(value.v) |-> serialize(value.v[i], NoneV, FALSE)])
    ELSE value

\* type(self).__dict__ restricted to the Field attributes
OwnFields(c) == [k \in Classes[c].own |-> Classes[c].decl[k]]

\* Document.to_dict(id_as_string) of an instance of class c with __dict__ d
to_dict(c, d, id_as_string) ==
    [k \in (DOMAIN d) \ InternalKeys |->
        serialize(d[k], Get(OwnFields(c), k, NoneV), id_as_string)]

(* ----------------------- timestamps and filters ----------------------- *)
\* getattr(cls.Meta, flag, True): a Meta that does not set the flag counts
\* as having it set
MetaFlagDefaultTrue(Meta, flag) == Get(Meta, flag, TRUE)

\* utils.formatter.add_timestamps_if_required(cls, operation, **kwargs)
add_timestamps_if_required(cls, operation, kwargs, now) ==
    IF cls.hasMeta THEN
        LET k1 == IF /\ MetaFlagDefaultTrue(cls.Meta, "created_at_timestamp")
                     /\ "created_at" \notin DOMAIN kwargs
                     /\ operation # "update"
                  THEN Put(kwargs, "created_at", PyDatetime(now))
                  ELSE kwargs
        IN  IF MetaFlagDefaultTrue(cls.Meta, "updated_at_timestamp")
            THEN Put(k1, "updated_at", PyDatetime(now))
            ELSE k1
    ELSE kwargs

\* Document.convert_id(query): every str value that parses as an ObjectId is
\* replaced by it, recursively through nested dicts
RECURSIVE convert_id(_)
convert_id(query) ==
    [k \in DOMAIN query |->
        IF query[k].t = "str" THEN
            (IF IsOidStr(query[k].v) THEN Oid(ParseOid(query[k].v)) ELSE query[k])
        ELSE IF query[k].t = "dict" THEN DictV(convert_id(query[k].v))
        ELSE query[k]]

(* ------------------- the backing collection (driver) ------------------ *)
\* a stored document matches an equality filter
Matches(doc, query) == \A k \in DOMAIN query : k \in DOMAIN doc /\ doc[k] = query[k]
Matching(col, query) == {i \in DOMAIN col : Matches(col[i], query)}

\* collection.insert_one(document): the database assigns the identity when
\* the document has none; a duplicate identity is refused
coll_insert_one(col, document, fresh) ==
    LET id == IF "_id" \in DOMAIN document THEN document["_id"].v ELSE fresh
    IN  IF id \in DOMAIN col THEN [ok |-> FALSE, coll |-> col, inserted_id |-> 0]
        ELSE [ok |-> TRUE, inserted_id |-> id,
              coll |-> [i \in (DOMAIN col) \cup {id} |->
                          IF i = id THEN Put(document, "_id", Oid(id)) ELSE col[i]]]

\* collection.replace_one({"_id": id}, document) / find_one_and_replace on
\* the matched document id: the identity is kept and cannot be changed
coll_replace(col, id, document) ==
    IF "_id" \in DOMAIN document /\ document["_id"] # Oid(id)
    THEN [ok |-> FALSE, coll |-> col]
    ELSE [ok |-> TRUE, coll |-> [col EXCEPT ![id] = Put(document, "_id", Oid(id))]]

\* collection.find_one_and_update(query, {"$set": fields}) on the matched
\* document id: the identity cannot be set to another value
coll_set(col, id, fields) ==
    IF "_id" \in DOMAIN fields /\ fields["_id"] # Oid(id)
    THEN [ok |-> FALSE, coll |-> col]
    ELSE [ok |-> TRUE, coll |-> [col EXCEPT ![id] = Merge(col[id], fields)]]

(* ------------------------ index synchronisation ----------------------- *)
\* index names are sequences of the tokens that "_" joins
\* the name create_indexes_for_document derives for a declared index
DefinedIndexName(ix) ==
    IF ix.name # <<>> THEN ix.name ELSE [i \in 1..Len(ix.fields) |-> ix.fields[i][1]]
\* the name the index gets in the database: the `name` option, else the
\* driver's field_direction name
RECURSIVE FieldDirTokens(_)
FieldDirTokens(fields) ==
    IF fields = <<>> THEN <<>> ELSE <<fields[1][1], fields[1][2]>> \o FieldDirTokens(Tail(fields))
ActualIndexName(ix) == IF ix.name # <<>> THEN ix.name ELSE FieldDirTokens(ix.fields)
DeclaredIndexes(cls) ==
    IF cls.hasMeta /\ "indexes" \in DOMAIN cls.Meta
    THEN {cls.Meta["indexes"][i] : i \in 1..Len(cls.Meta["indexes"])}
    ELSE {}
UniqueFields(cls) == {n \in DOMAIN cls.decl : cls.decl[n].unique}

\* what one collection.create_index call may do: succeed, fail with the
\* OperationFailure that names an index option the Atlas tier lacks, fail
\* with any other OperationFailure, or fail with another exception
CreateOutcomes == {"ok", "tier", "failure", "error"}

\* the create_index calls create_indexes_for_document may issue, in order:
\* the unique fields, then the entries of Meta.indexes
RECURSIVE UniqueIndexPlan(_, _)
UniqueIndexPlan(cls, i) ==
    IF i > Len(cls.order) THEN <<>>
    ELSE (IF cls.decl[cls.order[i]].unique
          THEN <<[kind |-> "unique", defined |-> <<cls.order[i], "unique">>,
                  actual |-> <<cls.order[i], "unique">>]>>
          ELSE <<>>) \o UniqueIndexPlan(cls, i + 1)
DeclaredIndexPlan(cls) ==
    IF cls.hasMeta /\ "indexes" \in DOMAIN cls.Meta
    THEN [i \in 1..Len(cls.Meta["indexes"]) |->
            [kind |-> "declared", defined |-> DefinedIndexName(cls.Meta["indexes"][i]),
             actual |-> ActualIndexName(cls.Meta["indexes"][i])]]
    ELSE <<>>
IndexPlan(cls) == UniqueIndexPlan(cls, 1) \o DeclaredIndexPlan(cls)
\* defined_indexes once both loops have run
DefinedIndexes(cls) == {IndexPlan(cls)[i].defined : i \in 1..Len(IndexPlan(cls))}

\* a synchronisation under way: the exception raised (if any), the index
\* names on the collection, the calls issued, whether list_indexes ran
SyncStart(existing) == [raised |-> "", indexes |-> existing, calls |-> <<>>, listed |-> TRUE]

\* DataBase.handle_operation_failure: a warning for the tier message, an
\* error log for any other OperationFailure; it returns in both cases
handle_operation_failure(outcome) == ""

\* what an attempt to create the index of a plan entry raises: a unique
\* field turns every exception into ValueError, a Meta.indexes entry hands
\* an OperationFailure to handle_operation_failure
create_index_raised(entry, outcome) ==
    IF outcome = "ok" THEN ""
    ELSE IF entry.kind = "unique" THEN "ValueError"
    ELSE IF outcome \in {"tier", "failure"} THEN handle_operation_failure(outcome)
    ELSE "Exception"

\* await collection.create_index(...)
create_index(s, entry, outcome) ==
    [s EXCEPT !.indexes = IF outcome = "ok" THEN @ \cup {entry.actual} ELSE @,
              !.calls = Append(@, [call |-> "create_index", name |-> entry.actual,
                                   kind |-> entry.kind, outcome |-> outcome]),
              !.raised = create_index_raised(entry, outcome)]

\* await collection.drop_index(index_name): an index that is not on the
\* collection makes the server refuse the call
drop_index(s, name) ==
    [s EXCEPT !.indexes = @ \ {name},
              !.calls = Append(@, [call |-> "drop_index", name |-> name, kind |-> "",
                                   outcome |-> IF name \in s.indexes THEN "ok" ELSE "failure"]),
              !.raised = IF name \in s.indexes THEN "" ELSE "OperationFailure"]

\* the two creation loops of create_indexes_for_document from plan entry i
RECURSIVE create_indexes_from(_, _, _, _, _)
create_indexes_from(plan, i, existing, outcomes, s) ==
    IF s.raised # "" \/ i > Len(plan) THEN s
    ELSE create_indexes_from(plan, i + 1, existing, outcomes,
                             IF plan[i].defined \in existing THEN s
                             ELSE create_index(s, plan[i], outcomes[i]))

\* the loop of remove_outdated_indexes over indexes_to_remove
RECURSIVE drop_indexes(_, _)
drop_indexes(names, s) ==
    IF s.raised # "" \/ names = {} THEN s
    ELSE drop_indexes(names \ {CHOOSE n \in names : TRUE},
                      drop_index(s, CHOOSE n \in names : TRUE))

\* DataBase.remove_outdated_indexes
indexes_to_remove(defined, existing) == (existing \ defined) \ {<<"_id_">>}
remove_outdated_indexes(defined, existing, s) ==
    IF s.raised # "" THEN s ELSE drop_indexes(indexes_to_remove(defined, existing), s)

\* DataBase.create_indexes_for_document with the calls it issues, outcomes
\* being what the create_index call of each plan entry does
synchronise_indexes(cls, existing, outcomes) ==
    remove_outdated_indexes(DefinedIndexes(cls), existing,
        create_indexes_from(IndexPlan(cls), 1, existing, outcomes, SyncStart(existing)))

\* DataBase.create_indexes_for_document followed by remove_outdated_indexes
\* when every create_index call succeeds: the index names on the collection
\* afterwards
create_indexes_for_document(cls, existing) ==
    synchronise_indexes(cls, existing, [i \in 1..Len(IndexPlan(cls)) |-> "ok"]).indexes

(* ------------------------------- state -------------------------------- *)
VARIABLES
    klass,            \* the Document subclass the operations are called on
    focus,            \* the field a field-level behaviour exercises ("" otherwise)
    coll,             \* the class's collection: identity |-> stored document
    nextOid,          \* the next ObjectId to be generated
    clock,            \* the time: it advances with every operation
    obj,              \* the instance bound by the caller, or None
    last,             \* the last call: arguments, outcome and what it wrote
    indexes,          \* the index names present on the collection
    indexes_created,  \* cls._indexes_created
    db,               \* the collections of the subclasses of klass: name |-> collection
    connected,        \* DataBase.db is not None
    tasks             \* the coroutines in flight: name |-> position and locals

vars == <<klass, focus, coll, nextOid, clock, obj, last, indexes, indexes_created, db,
          connected, tasks>>

LastBase ==
    [op |-> "init", raised |-> "", kwargs |-> EmptyDict, query |-> EmptyDict,
     update |-> EmptyDict, written |-> EmptyDict, id |-> 0, path |-> "",
     result |-> NoneV, now |-> 0, count |-> 0, results |-> <<>>, ids |-> <<>>,
     flag |-> FALSE, documents |-> <<>>, limit |-> NoneV, calls |-> <<>>,
     synced |-> FALSE]

\* the classes the persistence behaviours run on
CrudClasses == {"User", "Session", "Example", "ExampleDefault"}

Init ==
    /\ klass \in CrudClasses
    /\ focus = ""
    /\ coll = EmptyDict
    /\ nextOid = 1
    /\ clock = 0
    /\ obj = NoneV
    /\ last = LastBase
    /\ indexes = {<<"_id_">>}
    /\ indexes_created = FALSE
    /\ connected = TRUE
    /\ tasks = <<>>
    /\ db = EmptyDict

(* ------------------------------- inputs ------------------------------- *)
s_joe == <<"j", "o", "e">>
s_bob == <<"b", "o", "b">>
s_jo == <<"j", "o">>

\* the mappings handed to insert_one
InsertInputs(c) ==
    CASE c = "User" ->
            {[username |-> PyStr(s_joe)],
             [username |-> PyStr(s_joe), age |-> PyInt(69), alive |-> PyBool(FALSE)],
             [username |-> PyStr(s_jo)]}
      [] c = "Session" -> {EmptyDict, [is_active |-> PyBool(TRUE)]}
      [] c = "Example" -> {[age |-> PyInt(12)], [name |-> PyStr(s_joe), age |-> PyInt(12)]}
      [] c = "ExampleDefault" -> {[age |-> PyInt(12)], [name |-> PyStr(s_bob)]}
      [] c = "Book" -> {[name |-> PyStr(s_joe), title |-> PyStr(s_bob)], [name |-> PyStr(s_bob)]}
      [] c = "Profile" -> {EmptyDict, [bio |-> PyStr(s_joe)], [bio |-> PyInt(7)]}
      [] c = "Electronics" -> {[name |-> PyStr(s_joe), brand |-> PyStr(s_jo)],
                               [name |-> PyStr(s_bob), high_value |-> PyBool(TRUE)]}
      [] OTHER -> {}

\* the keyword arguments handed to the constructor
ConstructInputs(c) ==
    InsertInputs(c) \cup
    (IF c = "User" THEN {[username |-> PyStr(s_bob), _id |-> PyStr(OidStr(1))]} ELSE {})

\* the filters: by identity (native or string form) or by a field
Queries(c) ==
    {[_id |-> Oid(1)], [_id |-> PyStr(OidStr(1))]} \cup
    (CASE c = "User" -> {[username |-> PyStr(s_joe)]}
       [] c = "Session" -> {[is_active |-> PyBool(FALSE)]}
       [] c = "Item" -> {EmptyDict, [name |-> PyStr(s_joe)]}
       [] OTHER -> {[age |-> PyInt(12)]})

\* the update_fields handed to update_one and update_many
UpdateInputs(c) ==
    CASE c = "User" ->
            {[age |-> PyInt(70)], [username |-> PyStr(s_bob)],
             [_id |-> PyStr(OidStr(2)), age |-> PyInt(70)], [age |-> PyInt(4)]}
      [] c = "Session" -> {[is_active |-> PyBool(TRUE)]}
      [] OTHER -> {[age |-> PyInt(13)], [name |-> PyStr(s_bob)]}

\* the replacement documents handed to find_one_and_replace
ReplaceInputs(c) ==
    CASE c = "User" -> {[username |-> PyStr(s_joe), age |-> PyInt(35)]}
      [] c = "Session" -> {[is_active |-> PyBool(TRUE)]}
      [] OTHER -> {[name |-> PyStr(s_joe), age |-> PyInt(13)]}

\* the (attribute, value) assignments made on a bound instance
AssignInputs(c) ==
    CASE c = "User" -> {<<"username", PyStr(s_bob)>>, <<"username", PyStr(s_jo)>>, <<"age", PyInt(70)>>}
      [] c = "Session" -> {<<"is_active", PyBool(TRUE)>>}
      [] OTHER -> {<<"name", PyStr(s_bob)>>, <<"age", PyInt(13)>>}

(* ------------------------ instance operations ------------------------- *)
\* intermediate results are passed to the operator that continues the
\* method, so that every call of the code is written once

\* the caller's state once cls(**kwargs) returned or raised r
Constructed(kwargs, r) ==
    /\ obj' = IF r.ok THEN [c |-> klass, d |-> r.v, saved |-> {}] ELSE obj
    /\ last' = [LastBase EXCEPT !.op = "construct", !.kwargs = kwargs,
                                !.raised = IF r.ok THEN "" ELSE r.err,
                                !.result = IF r.ok THEN InstV(klass, r.v) ELSE NoneV,
                                !.now = clock + 1]

\* obj = cls(**kwargs)
Construct(kwargs) ==
    /\ clock < MaxClock
    /\ GeneratesId(kwargs) => nextOid <= MaxOid
    /\ Constructed(kwargs, Document_init(klass, kwargs, clock + 1, nextOid))
    /\ nextOid' = IF GeneratesId(kwargs) THEN nextOid + 1 ELSE nextOid
    /\ clock' = clock + 1
    /\ UNCHANGED <<db, klass, focus, connected, tasks, coll, indexes, indexes_created>>

\* setattr(self, name, value): a declared field goes through its descriptor,
\* any other name is stored in the instance __dict__
setattr(c, d, name, value, now, fresh) ==
    IF name \in DOMAIN Classes[c].decl
    THEN Descriptor_set(Classes[c].decl[name], name, d, value, now, fresh)
    ELSE Ok(Put(d, name, value))

\* the caller's state once the assignment returned or raised r
Assigned(name, value, r) ==
    /\ obj' = IF r.ok THEN [obj EXCEPT !.d = r.v] ELSE obj
    /\ last' = [LastBase EXCEPT !.op = "setattr", !.kwargs = Put(EmptyDict, name, value),
                                !.raised = IF r.ok THEN "" ELSE r.err,
                                !.result = IF r.ok THEN InstV(obj.c, r.v) ELSE NoneV,
                                !.now = clock + 1]

\* obj.name = value
SetAttr(name, value) ==
    /\ obj # NoneV
    /\ clock < MaxClock
    /\ Assigned(name, value, setattr(obj.c, obj.d, name, value, clock + 1, nextOid))
    /\ clock' = clock + 1
    /\ UNCHANGED <<db, klass, focus, connected, tasks, coll, nextOid, indexes, indexes_created>>

\* `not hasattr(self, "_id")` in save()
IsNew(d) == "_id" \notin DOMAIN d
\* save() that leaves out `self._id = result.inserted_id`
save_assign_id_skipped(d, inserted_id) == d
\* `self._id = result.inserted_id` in save()
save_assign_id(d, inserted_id) == Put(d, "_id", Oid(inserted_id))

\* hasattr(self.Meta, flag) and getattr(self.Meta, flag), as save() tests it
MetaFlagSet(c, flag) == Classes[c].hasMeta /\ Get(Classes[c].Meta, flag, FALSE)

\* the outcome r of save() once its assignment of a timestamp attribute
\* returned or raised x: an exception ends save() as a DocumentInsertError
save_stamped(r, x) ==
    IF x.ok THEN [r EXCEPT !.d = x.v] ELSE [r EXCEPT !.raised = "DocumentInsertError"]

\* one of the `self.<name> = document.get("<name>")` of save()
save_stamp(c, r, flag, name, now, fresh) ==
    IF r.raised # "" \/ ~MetaFlagSet(c, flag) THEN r
    ELSE save_stamped(r, setattr(c, r.d, name, Get(r.written, name, NoneV), now, fresh))

\* the insert branch of save() up to the assignment of the identity
save_insert(d, col, document, fresh) ==
    LET ins == coll_insert_one(col, document, fresh)
    IN  IF ~ins.ok
        THEN [raised |-> "DocumentInsertError", coll |-> col, d |-> d, path |-> "insert",
              id |-> 0, written |-> document]
        ELSE [raised |-> "", coll |-> ins.coll, d |-> save_assign_id(d, ins.inserted_id),
              path |-> "insert", id |-> ins.inserted_id, written |-> document]

\* the replace branch of save(): replace_one({"_id": self._id}, document)
save_replace(d, col, document) ==
    LET id == d["_id"].v
        rep == IF id \in DOMAIN col THEN coll_replace(col, id, document)
               ELSE [ok |-> TRUE, coll |-> col]
    IN  [raised |-> IF rep.ok THEN "" ELSE "DocumentInsertError",
         coll |-> rep.coll, d |-> d, path |-> "replace",
         id |-> IF id \in DOMAIN col THEN id ELSE 0, written |-> document]

\* save() from `document = self.to_dict(id_as_string=False)` on
save_document(c, d, col, document, now, fresh) ==
    IF IsNew(d)
    THEN save_stamp(c,
             save_stamp(c, save_insert(d, col, document, fresh),
                        "created_at_timestamp", "created_at", now, fresh),
             "updated_at_timestamp", "updated_at", now, fresh)
    ELSE save_replace(d, col, document)

\* Document.save(): the outcome for an instance of class c with __dict__ d
save(c, d, col, now, fresh) == save_document(c, d, col, to_dict(c, d, FALSE), now, fresh)

\* the caller's state once save() returned or raised r
Saved(r) ==
    /\ coll' = r.coll
    /\ obj' = [obj EXCEPT !.d = r.d,
                          !.saved = IF r.path = "insert" /\ r.id # 0 THEN @ \cup {r.id} ELSE @]
    /\ nextOid' = IF nextOid \in DOMAIN r.coll THEN nextOid + 1 ELSE nextOid
    /\ last' = [LastBase EXCEPT !.op = "save", !.raised = r.raised, !.path = r.path,
                                !.id = r.id, !.written = r.written,
                                !.result = InstV(obj.c, r.d), !.now = clock + 1]

\* await obj.save()
Save ==
    /\ obj # NoneV
    /\ clock < MaxClock
    /\ IsNew(obj.d) => (nextOid <= MaxOid /\ Cardinality(DOMAIN coll) < MaxDocs)
    /\ Saved(save(obj.c, obj.d, coll, clock + 1, nextOid))
    /\ clock' = clock + 1
    /\ UNCHANGED <<db, klass, focus, connected, tasks, indexes, indexes_created>>

(* -------------------------- class operations -------------------------- *)
\* the outcome of a class operation that wrote nothing and returned None
NoResult(col) ==
    [raised |-> "", coll |-> col, written |-> EmptyDict, id |-> 0, result |-> NoneV, count |-> 0]

\* `return cls.from_dict(**document)` on the stored document id: r is the
\* hydration, whose exception the operation re-raises as error
Returned(c, r, error, col, written, id) ==
    [raised |-> IF r.ok THEN "" ELSE error, coll |-> col, written |-> written, id |-> id,
     result |-> IF r.ok THEN InstV(c, r.v) ELSE NoneV, count |-> 0]

\* the caller's state once the class operation op returned or raised r:
\* `user = await User.op(...)` binds a returned document
Called(op, kwargs, query, update, bind, r) ==
    /\ coll' = r.coll
    /\ obj' = IF bind /\ r.raised = "" /\ r.result # NoneV
              THEN [c |-> r.result.c, d |-> r.result.d, saved |-> {}]
              ELSE obj
    /\ nextOid' = IF nextOid \in DOMAIN r.coll THEN nextOid + 1 ELSE nextOid
    /\ last' = [LastBase EXCEPT !.op = op, !.kwargs = kwargs, !.query = query,
                                !.update = update, !.raised = r.raised,
                                !.written = r.written, !.id = r.id, !.result = r.result,
                                !.count = r.count, !.now = clock + 1]
    /\ clock' = clock + 1

\* the next ObjectId to be generated once the collection is col: identities
\* already in use are never generated again
NextFree(col, n) == CHOOSE m \in n..(n + Cardinality(DOMAIN col)) :
                        m \notin DOMAIN col /\ \A k \in n..(m - 1) : k \in DOMAIN col

\* the outcome of a class operation that wrote nothing and returned nothing
OpResult(col) ==
    [raised |-> "", coll |-> col, written |-> EmptyDict, id |-> 0, result |-> NoneV,
     count |-> 0, results |-> <<>>, ids |-> <<>>, flag |-> FALSE]

\* the caller's state once the class operation op returned or raised r
Answered(op, documents, query, update, limit, r) ==
    /\ coll' = r.coll
    /\ obj' = obj
    /\ nextOid' = NextFree(r.coll, nextOid)
    /\ last' = [LastBase EXCEPT !.op = op, !.documents = documents, !.query = query,
                                !.update = update, !.limit = limit, !.raised = r.raised,
                                !.written = r.written, !.id = r.id, !.result = r.result,
                                !.count = r.count, !.results = r.results, !.ids = r.ids,
                                !.flag = r.flag, !.now = clock + 1]
    /\ clock' = clock + 1

\* the natural (insertion) order of the documents ids of a collection
RECURSIVE natural_order(_)
natural_order(ids) ==
    IF ids = {} THEN <<>>
    ELSE <<CHOOSE i \in ids : \A j \in ids : i <= j>>
         \o natural_order(ids \ {CHOOSE i \in ids : \A j \in ids : i <= j})

\* [cls.from_dict(subcls=subcls, **doc) for doc in documents]
find_many_hydrate(subcls, col, ids, now, fresh) ==
    [i \in 1..Len(ids) |-> from_dict(subcls, col[ids[i]], now, fresh)]

\* insert_one from `db[collection_name].insert_one(document_w_timestamps)` on
insert_one_document(c, col, w, now, fresh) ==
    LET ins == coll_insert_one(col, w, fresh)
    IN  IF ~ins.ok
        THEN [NoResult(col) EXCEPT !.raised = "DocumentInsertError", !.written = w]
        ELSE Returned(c, from_dict(c, ins.coll[ins.inserted_id], now, fresh),
                      "DocumentInsertError", ins.coll, w, ins.inserted_id)

\* insert_one once cls.from_dict(**document) returned or raised r0: a
\* TypeError becomes a ValueError, any other exception propagates
insert_one_instance(c, col, r0, now, fresh) ==
    IF ~r0.ok
    THEN [NoResult(col) EXCEPT !.raised = IF r0.err = "TypeError" THEN "ValueError" ELSE r0.err]
    ELSE insert_one_document(c, col,
             add_timestamps_if_required(Classes[c], "create", to_dict(c, r0.v, FALSE), now),
             now, fresh)

\* Document.insert_one(document): the outcome on the collection col
insert_one(c, document, col, now, fresh) ==
    insert_one_instance(c, col, from_dict(c, document, now, fresh), now, fresh)

\* [user =] await cls.insert_one(document)
InsertOne(document, bind) ==
    /\ nextOid <= MaxOid
    /\ Cardinality(DOMAIN coll) < MaxDocs
    /\ clock < MaxClock
    /\ Called("insert_one", document, EmptyDict, EmptyDict, bind,
              insert_one(klass, document, coll, clock + 1, nextOid))
    /\ UNCHANGED <<db, klass, focus, connected, tasks, indexes, indexes_created>>

\* update_one from `collection.find_one_and_update(query, {"$set": ...})` on,
\* the driver having picked the matched document id (0: none matches)
update_one_set(c, col, id, set, now, fresh) ==
    LET upd == coll_set(col, id, set)
    IN  IF id = 0 THEN [NoResult(col) EXCEPT !.written = set]
        ELSE IF ~upd.ok
        THEN [NoResult(col) EXCEPT !.raised = "DocumentUpdateError", !.written = set, !.id = id]
        ELSE Returned(c, from_dict(c, upd.coll[id], now, fresh),
                      "DocumentUpdateError", upd.coll, set, id)

\* update_one once cls.from_dict(**update_fields) returned or raised r0
update_one_instance(c, col, id, r0, now, fresh) ==
    IF ~r0.ok THEN [NoResult(col) EXCEPT !.raised = "DocumentUpdateError"]
    ELSE update_one_set(c, col, id, to_dict(c, r0.v, FALSE), now, fresh)

\* the loop `for field in query.keys(): update_fields.pop(field, None)`
update_one_pop(query, update_fields) == Without(update_fields, DOMAIN query)

\* Document.update_one(query, update_fields) after ensure_indexes()
update_one(c, query, update_fields, col, id, now, fresh) ==
    update_one_instance(c, col, id,
        from_dict(c,
                  update_one_pop(convert_id(query),
                                 add_timestamps_if_required(Classes[c], "update", update_fields, now)),
                  now, fresh),
        now, fresh)

\* the documents the driver may pick for a filter: one of the matching ones,
\* or none (0) when nothing matches
Picked(col, query) == IF Matching(col, query) = {} THEN {0} ELSE Matching(col, query)

\* Document.ensure_indexes(): the first call on a class reconciles the
\* collection's indexes with the declared ones
ensure_indexes(c) ==
    /\ indexes' = IF indexes_created THEN indexes
                  ELSE create_indexes_for_document(Classes[c], indexes)
    /\ indexes_created' = TRUE

\* user = await cls.update_one(query, update_fields)
UpdateOne(query, update_fields) ==
    /\ clock < MaxClock
    /\ ensure_indexes(klass)
    /\ \E id \in Picked(coll, convert_id(query)) :
         Called("update_one", EmptyDict, query, update_fields, TRUE,
                update_one(klass, query, update_fields, coll, id, clock + 1, nextOid))
    /\ UNCHANGED <<db, klass, focus, connected, tasks>>

\* collection.update_many(query, {"$set": fields}): the matching documents
\* are updated in natural (insertion) order up to the first refused write
RECURSIVE coll_update_many(_, _, _)
coll_update_many(col, ids, fields) ==
    IF ids = {} THEN [ok |-> TRUE, coll |-> col, modified_count |-> 0]
    ELSE LET id == CHOOSE i \in ids : \A j \in ids : i <= j
             upd == coll_set(col, id, fields)
             rest == coll_update_many(upd.coll, ids \ {id}, fields)
         IN  IF ~upd.ok THEN [ok |-> FALSE, coll |-> col, modified_count |-> 0]
             ELSE [rest EXCEPT !.modified_count = @ + (IF upd.coll[id] # col[id] THEN 1 ELSE 0)]

\* update_many once every from_dict of perform_update returned or raised:
\* rs are the hydrations of the documents found
update_many_documents(upd, update_fields, rs) ==
    IF \E i \in DOMAIN rs : ~rs[i].ok
    THEN [OpResult(upd.coll) EXCEPT !.raised = "DocumentUpdateError", !.written = update_fields,
                                    !.count = upd.modified_count]
    ELSE [OpResult(upd.coll) EXCEPT
            !.written = update_fields, !.count = upd.modified_count,
            !.results = [i \in DOMAIN rs |-> InstV(rs[i].v["__type"].v, rs[i].v)]]

\* perform_update once the driver's update_many returned or raised upd: when
\* it modified a document, the filter is run again on the updated collection
\* and every document found is hydrated
update_many_found(c, query, update_fields, upd, now, fresh) ==
    IF ~upd.ok
    THEN [OpResult(upd.coll) EXCEPT !.raised = "DocumentUpdateError", !.written = update_fields]
    ELSE IF upd.modified_count > 0
    THEN update_many_documents(upd, update_fields,
             find_many_hydrate(c, upd.coll, natural_order(Matching(upd.coll, query)),
                               now, fresh))
    ELSE [OpResult(upd.coll) EXCEPT !.written = update_fields]

\* Document.update_many(query, update_fields) on a class without subclasses:
\* neither the filter nor the fields are converted, validated or stamped
update_many(c, query, update_fields, col, now, fresh) ==
    update_many_found(c, query, update_fields,
                      coll_update_many(col, Matching(col, query), update_fields), now, fresh)

\* docs, n = await cls.update_many(query, update_fields)
UpdateMany(query, update_fields) ==
    /\ clock < MaxClock
    /\ Answered("update_many", <<>>, query, update_fields, NoneV,
                update_many(klass, query, update_fields, coll, clock + 1, nextOid))
    /\ UNCHANGED <<db, klass, focus, connected, tasks, indexes, indexes_created>>

\* find_one_and_replace from `collection.find_one_and_replace(...)` on, the
\* driver having picked the matched document id (0: none matches)
find_one_and_replace_document(c, col, id, rep, now, fresh) ==
    LET upd == coll_replace(col, id, rep)
    IN  IF id = 0 THEN [NoResult(col) EXCEPT !.written = rep]
        ELSE IF ~upd.ok
        THEN [NoResult(col) EXCEPT !.raised = "DocumentUpdateError", !.written = rep, !.id = id]
        ELSE Returned(c, from_dict(c, upd.coll[id], now, fresh),
                      "DocumentUpdateError", upd.coll, rep, id)

\* Document.find_one_and_replace(query, replacement): the replacement is
\* stamped with the default operation, "update"
find_one_and_replace(c, query, replacement, col, id, now, fresh) ==
    find_one_and_replace_document(c, col, id,
        add_timestamps_if_required(Classes[c], "update", replacement, now), now, fresh)

\* user = await cls.find_one_and_replace(query, replacement)
FindOneAndReplace(query, replacement) ==
    /\ clock < MaxClock
    /\ \E id \in Picked(coll, query) :
         Called("find_one_and_replace", EmptyDict, query, replacement, TRUE,
                find_one_and_replace(klass, query, replacement, coll, id, clock + 1, nextOid))
    /\ UNCHANGED <<db, klass, focus, connected, tasks, indexes, indexes_created>>

(* ------------------------- batch insertion ---------------------------- *)
\* collection.insert_many(documents): an ordered insert, which stops at the
\* first refused document and keeps the ones inserted before it
RECURSIVE coll_insert_many(_, _, _)
coll_insert_many(col, documents, fresh) ==
    IF documents = <<>> THEN [ok |-> TRUE, coll |-> col, inserted_ids |-> <<>>]
    ELSE LET ins == coll_insert_one(col, Head(documents), fresh)
             rest == coll_insert_many(ins.coll, Tail(documents), NextFree(ins.coll, fresh))
         IN  IF ~ins.ok THEN [ok |-> FALSE, coll |-> col, inserted_ids |-> <<>>]
             ELSE [rest EXCEPT !.inserted_ids = <<ins.inserted_id>> \o @]

\* insert_many once every `cls.from_dict(**doc)` of the return statement
\* returned or raised: rs are the hydrations
insert_many_hydrated(c, ins, rs) ==
    IF \E i \in DOMAIN rs : ~rs[i].ok
    THEN [OpResult(ins.coll) EXCEPT !.raised = "DocumentInsertError"]
    ELSE [OpResult(ins.coll) EXCEPT !.results = [i \in DOMAIN rs |-> InstV(c, rs[i].v)],
                                    !.ids = ins.inserted_ids]

\* insert_many from `collection.insert_many(processed_documents)` on: the
\* driver has put the identity into each processed document it inserted
insert_many_inserted(c, processed, ins, now, fresh) ==
    IF ~ins.ok THEN [OpResult(ins.coll) EXCEPT !.raised = "DocumentInsertError"]
    ELSE insert_many_hydrated(c, ins,
             [i \in 1..Len(processed) |->
                 from_dict(c, Put(processed[i], "_id", Oid(ins.inserted_ids[i])), now, fresh)])

\* the loop of insert_many over the documents from the i-th on, acc being
\* the processed documents so far: an exception of the validation propagates
RECURSIVE insert_many_process(_, _, _, _, _, _)
RECURSIVE insert_many_append(_, _, _, _, _, _, _)
insert_many_process(c, documents, i, acc, now, fresh) ==
    IF i > Len(documents) THEN Ok(acc)
    ELSE insert_many_append(c, documents, i, acc, now, fresh,
                            from_dict(c, documents[i], now, fresh))
\* insert_many that leaves a record out when its validation raises
insert_many_append_skipping(c, documents, i, acc, now, fresh, r0) ==
    IF ~r0.ok THEN insert_many_process(c, documents, i + 1, acc, now, fresh)
    ELSE insert_many_process(c, documents, i + 1,
             Append(acc, add_timestamps_if_required(Classes[c], "create",
                                                    to_dict(c, r0.v, FALSE), now)),
             now, fresh)
insert_many_append(c, documents, i, acc, now, fresh, r0) ==
    IF ~r0.ok THEN r0
    ELSE insert_many_process(c, documents, i + 1,
             Append(acc, add_timestamps_if_required(Classes[c], "create",
                                                    to_dict(c, r0.v, FALSE), now)),
             now, fresh)

\* insert_many once the loop returned the processed documents or raised
insert_many_write(c, col, p, now, fresh) ==
    IF ~p.ok THEN [OpResult(col) EXCEPT !.raised = p.err]
    ELSE insert_many_inserted(c, p.v, coll_insert_many(col, p.v, fresh), now, fresh)

\* Document.insert_many(documents): the outcome on the collection col
insert_many(c, documents, col, now, fresh) ==
    insert_many_write(c, col, insert_many_process(c, documents, 1, <<>>, now, fresh), now, fresh)

\* await cls.insert_many(documents)
InsertMany(documents) ==
    /\ clock < MaxClock
    /\ nextOid + Len(documents) - 1 <= MaxOid
    /\ Cardinality(DOMAIN coll) + Len(documents) <= MaxDocs
    /\ Answered("insert_many", documents, EmptyDict, EmptyDict, NoneV,
                insert_many(klass, documents, coll, clock + 1, nextOid))
    /\ UNCHANGED <<db, klass, focus, connected, tasks, indexes, indexes_created>>

\* the records handed to insert_many: those of insert_one, and one that
\* gives an identity of the caller's choice
RecordInputs(c) == InsertInputs(c) \cup {[_id |-> PyStr(OidStr(15))]}
\* the batches handed to insert_many
BatchInputs(c) ==
    UNION {[1..n -> RecordInputs(c)] : n \in 1..MaxBatch}

(* ------------------------- find, create, delete ----------------------- *)
\* the outcome r of a single-document operation, with the created / updated
\* flag of the caller's tuple; error replaces the exception r raised, if any
Flagged(r, flag, error) ==
    [OpResult(r.coll) EXCEPT !.raised = IF r.raised = "" THEN "" ELSE error,
                             !.written = r.written, !.id = r.id, !.result = r.result,
                             !.flag = flag]

\* Document.find_one_or_create(query, defaults), the driver's find_one(query)
\* having found the document id (0: none): the query is used as it is given;
\* any exception, that of the inner insert_one included, is re-raised as a
\* DocumentNotFoundError
find_one_or_create(c, query, defaults, col, id, now, fresh) ==
    IF id # 0
    THEN Flagged(Returned(c, from_dict(c, col[id], now, fresh), "DocumentNotFoundError",
                          col, EmptyDict, id),
                 FALSE, "DocumentNotFoundError")
    ELSE Flagged(insert_one(c, Merge(query, defaults), col, now, fresh),
                 TRUE, "DocumentNotFoundError")

\* user, created = await cls.find_one_or_create(query, defaults)
FindOneOrCreate(query, defaults) ==
    /\ clock < MaxClock
    /\ Matching(coll, query) = {} => (nextOid <= MaxOid /\ Cardinality(DOMAIN coll) < MaxDocs)
    /\ \E id \in Picked(coll, query) :
         Answered("find_one_or_create", <<>>, query, defaults, NoneV,
                  find_one_or_create(klass, query, defaults, coll, id, clock + 1, nextOid))
    /\ UNCHANGED <<db, klass, focus, connected, tasks, indexes, indexes_created>>

\* the defaults handed to find_one_or_create
DefaultsInputs(c) ==
    CASE c = "User" -> {[age |-> PyInt(30)]}
      [] c = "Session" -> {EmptyDict}
      [] OTHER -> {[age |-> PyInt(13)]}

\* the comprehension of find_one_and_update_empty_fields: the given fields
\* that the found document lacks or holds a falsy value for, and that the
\* query does not name
fields_to_update(existing_doc, query, update_fields) ==
    [k \in {k \in DOMAIN update_fields :
                /\ k \notin DOMAIN existing_doc \/ ~Truthy(existing_doc[k])
                /\ k \notin DOMAIN query} |-> update_fields[k]]

\* find_one_and_update_empty_fields once fields is computed on the found
\* document id: a non-empty fields goes to update_one, whose own filter picks
\* the document id2; the enclosing except re-raises every exception as a
\* DocumentUpdateError
find_one_and_update_empty_fields_update(c, query, fields, col, id, id2, now, fresh) ==
    IF DOMAIN fields # {}
    THEN Flagged(update_one(c, query, fields, col, id2, now, fresh), TRUE, "DocumentUpdateError")
    ELSE Flagged(Returned(c, from_dict(c, col[id], now, fresh), "DocumentUpdateError",
                          col, EmptyDict, id),
                 FALSE, "DocumentUpdateError")

\* Document.find_one_and_update_empty_fields(query, update_fields), the
\* driver's find_one(query) having found the document id (0: none): the
\* DocumentNotFoundError is raised inside the try block
find_one_and_update_empty_fields(c, query, update_fields, col, id, id2, now, fresh) ==
    IF id = 0 THEN [OpResult(col) EXCEPT !.raised = "DocumentUpdateError"]
    ELSE find_one_and_update_empty_fields_update(c, query,
             fields_to_update(col[id], query, update_fields), col, id, id2, now, fresh)

\* user, updated = await cls.find_one_and_update_empty_fields(query, update_fields)
FindOneAndUpdateEmptyFields(query, update_fields) ==
    /\ clock < MaxClock
    /\ \E id \in Picked(coll, query), id2 \in Picked(coll, convert_id(query)) :
         /\ Answered("find_one_and_update_empty_fields", <<>>, query, update_fields, NoneV,
                     find_one_and_update_empty_fields(klass, query, update_fields, coll,
                                                      id, id2, clock + 1, nextOid))
         /\ IF id # 0 /\ DOMAIN fields_to_update(coll[id], query, update_fields) # {}
            THEN ensure_indexes(klass)
            ELSE UNCHANGED <<indexes, indexes_created>>
    /\ UNCHANGED <<db, klass, focus, connected, tasks>>

\* the update_fields handed to find_one_and_update_empty_fields
EmptyFieldsInputs(c) ==
    CASE c = "User" -> {[age |-> PyInt(70)], [alive |-> PyBool(FALSE)]}
      [] c = "Session" -> {[is_active |-> PyBool(TRUE)], [is_active |-> PyBool(FALSE)]}
      [] OTHER -> {[age |-> PyInt(13)]}

(* ------------------------------- finds -------------------------------- *)
\* the first n elements of a sequence
Take(seq, n) == [i \in 1..(IF n < Len(seq) THEN n ELSE Len(seq)) |-> seq[i]]

\* collection.find(filter).limit(limit).to_list(length=limit), limit being
\* None or a positive int: the identities of the documents read
cursor_to_list(col, filter, limit) ==
    IF limit = NoneV THEN natural_order(Matching(col, filter))
    ELSE Take(natural_order(Matching(col, filter)), limit.v)

\* the loop of find_many over the (subclass, collection name) pairs from the
\* i-th on: the limit caps the cursor of each collection
RECURSIVE find_many_extend(_, _, _, _, _, _, _)
\* find_many that reads the first subclass collection only
find_many_extend_first(collection_names, i, database, filter, limit, now, fresh) ==
    IF i > 1 THEN <<>>
    ELSE find_many_hydrate(collection_names[i][1], database[collection_names[i][2]],
             cursor_to_list(database[collection_names[i][2]], filter, limit), now, fresh)
find_many_extend(collection_names, i, database, filter, limit, now, fresh) ==
    IF i > Len(collection_names) THEN <<>>
    ELSE find_many_hydrate(collection_names[i][1], database[collection_names[i][2]],
             cursor_to_list(database[collection_names[i][2]], filter, limit), now, fresh)
         \o find_many_extend(collection_names, i + 1, database, filter, limit, now, fresh)

\* find_many once every from_dict returned or raised: rs are the hydrations,
\* an exception is re-raised as a DocumentNotFoundError
find_many_combined(col, rs) ==
    IF \E i \in DOMAIN rs : ~rs[i].ok
    THEN [OpResult(col) EXCEPT !.raised = "DocumentNotFoundError"]
    ELSE [OpResult(col) EXCEPT
            !.results = [i \in DOMAIN rs |-> InstV(rs[i].v["__type"].v, rs[i].v)]]

\* Document.find_many(query, limit): the filter is used as it is given; col
\* is the collection of a class without subclasses, database the collections
\* of the subclasses
find_many(c, filter, limit, col, database, now, fresh) ==
    find_many_combined(col,
        IF Classes[c].subclasses # <<>>
        THEN find_many_extend(get_collection_name(c), 1, database, filter, limit, now, fresh)
        ELSE find_many_hydrate(c, col, cursor_to_list(col, filter, limit), now, fresh))

\* docs = await cls.find_many(query, limit=limit)
FindMany(query, limit) ==
    /\ clock < MaxClock
    /\ Answered("find_many", <<>>, query, EmptyDict, limit,
                find_many(klass, query, limit, coll, db, clock + 1, nextOid))
    /\ UNCHANGED <<db, klass, focus, connected, tasks, indexes, indexes_created>>

\* Document.find_one(query), the driver's find_one(filter) having found the
\* document id (0: none): `db[cls.get_collection_name()]` raises when the name
\* is the list a class with subclasses gives
find_one(c, query, col, id, now, fresh) ==
    IF Classes[c].subclasses # <<>>
    THEN [OpResult(col) EXCEPT !.raised = "DocumentNotFoundError"]
    ELSE IF id = 0 THEN OpResult(col)
    ELSE Flagged(Returned(c, from_dict(c, col[id], now, fresh), "DocumentNotFoundError",
                          col, EmptyDict, id),
                 FALSE, "DocumentNotFoundError")

\* doc = await cls.find_one(query)
FindOne(query) ==
    /\ clock < MaxClock
    /\ \E id \in Picked(coll, convert_id(query)) :
         Answered("find_one", <<>>, query, EmptyDict, NoneV,
                  find_one(klass, query, coll, id, clock + 1, nextOid))
    /\ UNCHANGED <<db, klass, focus, connected, tasks, indexes, indexes_created>>

\* the limits handed to find_many
LimitInputs == {NoneV, PyInt(1), PyInt(2)}

\* the caller's state once subcls.insert_one returned or raised r on the
\* collection name of the database
AnsweredIn(name, document, r) ==
    /\ db' = [db EXCEPT ![name] = r.coll]
    /\ nextOid' = IF nextOid \in DOMAIN r.coll THEN nextOid + 1 ELSE nextOid
    /\ last' = [LastBase EXCEPT !.op = "insert_one", !.kwargs = document,
                                !.raised = r.raised, !.written = r.written, !.id = r.id,
                                !.result = r.result, !.now = clock + 1]
    /\ clock' = clock + 1

\* await subcls.insert_one(document), subcls being a subclass of klass
InsertSubclass(subcls, document) ==
    /\ clock < MaxClock
    /\ nextOid <= MaxOid
    /\ Cardinality(UNION {DOMAIN db[n] : n \in DOMAIN db}) < MaxDocs
    /\ AnsweredIn(own_collection_name(subcls), document,
                  insert_one(subcls, document, db[own_collection_name(subcls)],
                             clock + 1, nextOid))
    /\ UNCHANGED <<coll, obj, klass, focus, connected, tasks, indexes, indexes_created>>

(* ------------------------------ deletions ----------------------------- *)
\* the collection col without the documents ids
coll_delete(col, ids) == [k \in (DOMAIN col) \ ids |-> col[k]]

\* Document.delete_one(query), the driver's delete_one(convert_id(query))
\* having deleted the document id (0: none matches): the flag is the answer
delete_one(col, id) ==
    IF id = 0 THEN OpResult(col)
    ELSE [OpResult(coll_delete(col, {id})) EXCEPT !.flag = TRUE, !.id = id]

\* deleted = await cls.delete_one(query)
DeleteOne(query) ==
    /\ clock < MaxClock
    /\ \E id \in Picked(coll, convert_id(query)) :
         Answered("delete_one", <<>>, query, EmptyDict, NoneV, delete_one(coll, id))
    /\ UNCHANGED <<db, klass, focus, connected, tasks, indexes, indexes_created>>

\* Document.delete_many(query) on a class without subclasses: the filter is
\* handed to the driver's delete_many as it is given
delete_many(query, col) ==
    [OpResult(coll_delete(col, Matching(col, query))) EXCEPT
        !.count = Cardinality(Matching(col, query))]

\* n = await cls.delete_many(query)
DeleteMany(query) ==
    /\ clock < MaxClock
    /\ Classes[klass].subclasses = <<>>
    /\ Answered("delete_many", <<>>, query, EmptyDict, NoneV, delete_many(query, coll))
    /\ UNCHANGED <<db, klass, focus, connected, tasks, indexes, indexes_created>>

\* Document.find_one_and_delete(query), the driver's find_one_and_delete(query)
\* having removed the document id (0: none matches): the filter is used as it
\* is given, and the DocumentNotFoundError raised inside the try block is
\* re-raised, like every exception, as a DocumentDeleteError
find_one_and_delete(c, query, col, id, now, fresh) ==
    IF id = 0 THEN [OpResult(col) EXCEPT !.raised = "DocumentDeleteError"]
    ELSE Flagged(Returned(c, from_dict(c, col[id], now, fresh), "DocumentDeleteError",
                          coll_delete(col, {id}), EmptyDict, id),
                 FALSE, "DocumentDeleteError")

\* doc = await cls.find_one_and_delete(query)
FindOneAndDelete(query) ==
    /\ clock < MaxClock
    /\ \E id \in Picked(coll, query) :
         Answered("find_one_and_delete", <<>>, query, EmptyDict, NoneV,
                  find_one_and_delete(klass, query, coll, id, clock + 1, nextOid))
    /\ UNCHANGED <<db, klass, focus, connected, tasks, indexes, indexes_created>>

(* --------------------------- the persistence -------------------------- *)
ConstructStep == \E kwargs \in ConstructInputs(klass) : Construct(kwargs)
SetAttrStep == \E a \in AssignInputs(klass) : SetAttr(a[1], a[2])
InsertOneStep == \E document \in InsertInputs(klass), bind \in BOOLEAN : InsertOne(document, bind)
UpdateOneStep ==
    \E query \in Queries(klass), update_fields \in UpdateInputs(klass) :
        UpdateOne(query, update_fields)
UpdateManyStep ==
    \E query \in Queries(klass), update_fields \in UpdateInputs(klass) :
        UpdateMany(query, update_fields)
FindOneAndReplaceStep ==
    \E query \in Queries(klass), replacement \in ReplaceInputs(klass) :
        FindOneAndReplace(query, replacement)

Next ==
    \/ ConstructStep
    \/ SetAttrStep
    \/ Save
    \/ InsertOneStep
    \/ UpdateOneStep
    \/ UpdateManyStep
    \/ FindOneAndReplaceStep

Spec == Init /\ [][Next]_vars

(* --------------------------- the insertions --------------------------- *)
InsertManyStep == \E documents \in BatchInputs(klass) : InsertMany(documents)

NextInserts ==
    \/ InsertOneStep
    \/ InsertManyStep

SpecInserts == Init /\ [][NextInserts]_vars

(* ------------------------ the embedded documents ---------------------- *)
\* the EmbeddedDocument subclasses: they inherit every class operation of
\* Document
EmbeddedClasses == {c \in DOMAIN Classes : Classes[c].embedded}
InitEmbedded ==
    /\ klass \in EmbeddedClasses
    /\ focus = ""
    /\ coll = EmptyDict
    /\ nextOid = 1
    /\ clock = 0
    /\ obj = NoneV
    /\ last = LastBase
    /\ indexes = {<<"_id_">>}
    /\ indexes_created = FALSE
    /\ connected = TRUE
    /\ tasks = <<>>
    /\ db = EmptyDict

SpecEmbedded == InitEmbedded /\ [][NextInserts]_vars

(* ----------------------- the single-class operations ------------------ *)
\* the classes the operations run on
OpsClasses == {"User", "Session"}
InitOps ==
    /\ klass \in OpsClasses
    /\ focus = ""
    /\ coll = EmptyDict
    /\ nextOid = 1
    /\ clock = 0
    /\ obj = NoneV
    /\ last = LastBase
    /\ indexes = {<<"_id_">>}
    /\ indexes_created = FALSE
    /\ connected = TRUE
    /\ tasks = <<>>
    /\ db = EmptyDict

InsertStep == \E document \in InsertInputs(klass) : InsertOne(document, FALSE)
FindOneOrCreateStep ==
    \E query \in Queries(klass), defaults \in DefaultsInputs(klass) :
        FindOneOrCreate(query, defaults)

FindOneAndUpdateEmptyFieldsStep ==
    \E query \in Queries(klass), update_fields \in EmptyFieldsInputs(klass) :
        FindOneAndUpdateEmptyFields(query, update_fields)

FindManyStep == \E query \in Queries(klass), limit \in LimitInputs : FindMany(query, limit)
FindOneStep == \E query \in Queries(klass) : FindOne(query)
DeleteOneStep == \E query \in Queries(klass) : DeleteOne(query)
DeleteManyStep == \E query \in Queries(klass) : DeleteMany(query)
FindOneAndDeleteStep == \E query \in Queries(klass) : FindOneAndDelete(query)

NextOps ==
    \/ InsertStep
    \/ FindOneOrCreateStep
    \/ FindOneAndUpdateEmptyFieldsStep
    \/ UpdateManyStep
    \/ UpdateOneStep
    \/ FindOneStep
    \/ FindManyStep
    \/ DeleteOneStep
    \/ DeleteManyStep
    \/ FindOneAndDeleteStep
    \/ InsertManyStep

SpecOps == InitOps /\ [][NextOps]_vars

(* ------------------------ the polymorphic reads ----------------------- *)
\* the base classes the reads fan out from
PolyClasses == {"Item"}
InitPoly ==
    /\ klass \in PolyClasses
    /\ focus = ""
    /\ coll = EmptyDict
    /\ nextOid = 1
    /\ clock = 0
    /\ obj = NoneV
    /\ last = LastBase
    /\ indexes = {<<"_id_">>}
    /\ indexes_created = FALSE
    /\ connected = TRUE
    /\ tasks = <<>>
    /\ db = [n \in {get_collection_name(klass)[i][2] :
                        i \in 1..Len(get_collection_name(klass))} |-> EmptyDict]

InsertSubclassStep ==
    \E i \in 1..Len(Classes[klass].subclasses) :
        \E document \in InsertInputs(Classes[klass].subclasses[i]) :
            InsertSubclass(Classes[klass].subclasses[i], document)

NextPoly ==
    \/ InsertSubclassStep
    \/ FindManyStep
    \/ FindOneStep

SpecPoly == InitPoly /\ [][NextPoly]_vars

(* ------------------------- the field behaviours ----------------------- *)
\* the classes the field-level behaviours run on
FieldClasses == {"User", "UserDetails", "Reading"}

InitFields ==
    /\ klass \in FieldClasses
    /\ focus \in DOMAIN Classes[klass].decl
    /\ coll = EmptyDict
    /\ nextOid = 1
    /\ clock = 0
    /\ obj = NoneV
    /\ last = LastBase
    /\ indexes = {<<"_id_">>}
    /\ indexes_created = FALSE
    /\ connected = TRUE
    /\ tasks = <<>>
    /\ db = EmptyDict

\* the values handed to a field f: accepted ones and refused ones
RECURSIVE FieldValues(_)
FieldValues(f) ==
    CASE f = NoneV -> {PyInt(1), PyStr(s_joe)}
      [] f.kind = "String" -> {PyStr(s_joe), PyStr(s_jo), PyInt(7)}
      [] f.kind = "Integer" -> {PyInt(70), PyInt(4), PyStr(s_joe)}
      [] f.kind = "Boolean" -> {PyBool(FALSE), PyInt(1)}
      [] f.kind = "Float" -> {PyFloat(7), PyInt(7), PyFloat(-3), PyStr(s_joe)}
      [] f.kind = "DateTime" ->
            {PyDatetime(0), PyDatetime(5), PyStr(s_date1), PyStr(s_joe), [t |-> "date", v |-> 2]}
      [] f.kind = "Enum" ->
            {EnumV(f.enum, m) : m \in DOMAIN Enums[f.enum]}
            \cup {Enums[f.enum][m] : m \in DOMAIN Enums[f.enum]}
            \cup {PyStr(s_joe), EnumV("Gender", "MALE")}
      [] f.kind = "GeoJSON" ->
            {ListV(<<PyInt(10), PyInt(20)>>), ListV(<<PyInt(200), PyInt(20)>>),
             GeoPoint(<<PyInt(10), PyInt(20)>>), PyStr(s_joe)}
      [] f.kind = "List" -> {ListV(<<v>>) : v \in FieldValues(f.field)} \cup {PyStr(s_joe)}
      [] f.kind = "Reference" -> {Oid(1), PyStr(OidStr(1)), PyStr(s_joe)}
      [] f.kind = "EmbeddedDocument" ->
            {DictV([bio |-> PyStr(s_joe)]), DictV([bio |-> PyInt(7)]), PyStr(s_joe)}

\* obj = cls(<focus>=value), with or without an identity
ConstructFieldStep ==
    \E value \in FieldValues(Classes[klass].decl[focus]), withId \in BOOLEAN :
        Construct(IF withId THEN Put(Put(EmptyDict, focus, value), "_id", PyStr(OidStr(1)))
                  ELSE Put(EmptyDict, focus, value))
\* obj.<focus> = value
AssignFieldStep ==
    \E value \in FieldValues(Classes[klass].decl[focus]) : SetAttr(focus, value)

NextFields ==
    \/ ConstructFieldStep
    \/ AssignFieldStep

SpecFields == InitFields /\ [][NextFields]_vars

(* ------------------------ index synchronisation calls ----------------- *)
\* what the create_index calls of one synchronisation of class c do
Outcomes(c) == [1..Len(IndexPlan(Classes[c])) -> CreateOutcomes]

\* cls.db[collection_name] while DataBase.db is None
NotConnected(existing) ==
    [raised |-> "TypeError", indexes |-> existing, calls |-> <<>>, listed |-> FALSE]
\* ensure_indexes on a class whose _indexes_created is set
NoSync(existing) == [raised |-> "", indexes |-> existing, calls |-> <<>>, listed |-> FALSE]

\* the outcome r of a synchronisation call: sets_flag tells whether the
\* caller sets cls._indexes_created once the call has returned
IndexesAnswered(op, sets_flag, r) ==
    /\ indexes' = r.indexes
    /\ indexes_created' = IF sets_flag /\ r.raised = "" THEN TRUE ELSE indexes_created
    /\ last' = [LastBase EXCEPT !.op = op, !.raised = r.raised, !.calls = r.calls,
                                !.synced = r.listed, !.now = clock + 1]
    /\ clock' = clock + 1
    /\ UNCHANGED <<klass, focus, coll, nextOid, obj, db, connected, tasks>>

\* await DataBase.create_indexes_for_document(cls)
CreateIndexesForDocument(outcomes) ==
    /\ clock < MaxClock
    /\ IndexesAnswered("create_indexes_for_document", FALSE,
                       IF connected
                       THEN synchronise_indexes(Classes[klass], indexes, outcomes)
                       ELSE NotConnected(indexes))

\* await cls.ensure_indexes()
EnsureIndexes(outcomes) ==
    /\ clock < MaxClock
    /\ IndexesAnswered("ensure_indexes", TRUE,
                       IF indexes_created THEN NoSync(indexes)
                       ELSE IF connected
                       THEN synchronise_indexes(Classes[klass], indexes, outcomes)
                       ELSE NotConnected(indexes))

\* await DataBase.connect(uri, db): the client and the database handle are
\* replaced; no index call is made. The call is recorded with whether it
\* follows a close()
Connect ==
    /\ connected' = TRUE
    /\ last' = [LastBase EXCEPT !.op = "connect", !.flag = ~connected, !.now = clock]
    /\ UNCHANGED <<klass, focus, coll, nextOid, clock, obj, indexes, indexes_created, db, tasks>>

\* await DataBase.close()
Close ==
    /\ connected' = FALSE
    /\ last' = IF connected THEN [LastBase EXCEPT !.op = "close", !.now = clock] ELSE last
    /\ UNCHANGED <<klass, focus, coll, nextOid, clock, obj, indexes, indexes_created, db, tasks>>

CreateIndexesForDocumentStep == \E outcomes \in Outcomes(klass) : CreateIndexesForDocument(outcomes)
EnsureIndexesStep == \E outcomes \in Outcomes(klass) : EnsureIndexes(outcomes)

\* the classes whose indexes are synchronised, and the indexes their
\* collection may already carry: the default one, and one nobody declares
IndexClasses == {"User", "Session", "Account"}
PriorIndexes == {{<<"_id_">>}, {<<"_id_">>, <<"stale", "1">>}}
InitIndexes ==
    /\ klass \in IndexClasses
    /\ focus = ""
    /\ coll = EmptyDict
    /\ nextOid = 1
    /\ clock = 0
    /\ obj = NoneV
    /\ last = LastBase
    /\ indexes \in PriorIndexes
    /\ indexes_created = FALSE
    /\ connected = TRUE
    /\ tasks = <<>>
    /\ db = EmptyDict

NextIndexes ==
    \/ CreateIndexesForDocumentStep
    \/ EnsureIndexesStep
    \/ Connect
    \/ Close

SpecIndexes == InitIndexes /\ [][NextIndexes]_vars

(* --------------------------- concurrent callers ------------------------ *)
\* two coroutines on one event loop: a step is the completion of one awaited
\* driver call together with the code that runs up to the next one
TaskNames == {"a", "b"}
\* a coroutine that has not been started: pc is its position, id and fields
\* what find_one_and_update_empty_fields read and computed, existing, i and
\* todo the locals of the synchronisation, raised, flag and rid its outcome
Idle ==
    [op |-> "", pc |-> "idle", query |-> EmptyDict, update |-> EmptyDict, id |-> 0,
     fields |-> EmptyDict, existing |-> {}, i |-> 0, todo |-> {}, raised |-> "",
     flag |-> FALSE, rid |-> 0]

\* asyncio.create_task(cls.op(query, update)): update_one starts with
\* ensure_indexes(), the two other operations with find_one(query)
TaskStart(t, op, query, update) ==
    /\ tasks[t].pc = "idle"
    /\ tasks' = [tasks EXCEPT ![t] = [Idle EXCEPT !.op = op, !.query = query, !.update = update,
                                                  !.pc = IF op = "update_one" THEN "ensure"
                                                         ELSE "find"]]
    /\ UNCHANGED <<klass, focus, coll, nextOid, clock, obj, last, indexes, indexes_created,
                   db, connected>>

\* `if not cls._indexes_created:` of ensure_indexes, up to the list_indexes
\* call of get_existing_indexes
TaskEnsure(t) ==
    /\ tasks[t].pc = "ensure"
    /\ tasks' = [tasks EXCEPT ![t].pc = IF indexes_created THEN "write" ELSE "list"]
    /\ UNCHANGED <<klass, focus, coll, nextOid, clock, obj, last, indexes, indexes_created,
                   db, connected>>

\* the first plan entry from i on whose name is not among the listed ones
\* (0: none)
NextCreate(plan, i, existing) ==
    IF \E j \in i..Len(plan) : plan[j].defined \notin existing
    THEN CHOOSE j \in i..Len(plan) :
            /\ plan[j].defined \notin existing
            /\ \A k \in i..(j - 1) : plan[k].defined \in existing
    ELSE 0

\* where create_indexes_for_document awaits next once the plan entries
\* before i are dealt with: a create_index call, else a drop_index call,
\* else it returns
sync_position(cls, task, i) ==
    IF NextCreate(IndexPlan(cls), i, task.existing) # 0
    THEN [task EXCEPT !.pc = "create", !.i = NextCreate(IndexPlan(cls), i, task.existing)]
    ELSE IF indexes_to_remove(DefinedIndexes(cls), task.existing) # {}
    THEN [task EXCEPT !.pc = "drop",
                      !.todo = indexes_to_remove(DefinedIndexes(cls), task.existing)]
    ELSE [task EXCEPT !.pc = "synced"]

\* a driver call of the synchronisation of task t completed in s, the task
\* being at t2 then: a synchronisation that returned sets _indexes_created
\* and update_one goes on; an exception ends the task (inside
\* find_one_and_update_empty_fields it is re-raised as DocumentUpdateError)
TaskSynced(t, s, t2) ==
    /\ indexes' = s.indexes
    /\ indexes_created' = (indexes_created \/ (s.raised = "" /\ t2.pc = "synced"))
    /\ tasks' = [tasks EXCEPT ![t] =
                    IF s.raised # ""
                    THEN [t2 EXCEPT !.pc = "done",
                                    !.raised = IF t2.op = "update_one" THEN s.raised
                                               ELSE "DocumentUpdateError"]
                    ELSE IF t2.pc = "synced" THEN [t2 EXCEPT !.pc = "write"]
                    ELSE t2]
    /\ UNCHANGED <<klass, focus, coll, nextOid, clock, obj, last, db, connected>>

\* existing_indexes = await cls.get_existing_indexes(collection)
TaskList(t) ==
    /\ tasks[t].pc = "list"
    /\ TaskSynced(t, SyncStart(indexes),
                  sync_position(Classes[klass], [tasks[t] EXCEPT !.existing = indexes], 1))

\* await collection.create_index(...) of plan entry i
TaskCreate(t) ==
    /\ tasks[t].pc = "create"
    /\ TaskSynced(t, create_index(SyncStart(indexes), IndexPlan(Classes[klass])[tasks[t].i], "ok"),
                  sync_position(Classes[klass], tasks[t], tasks[t].i + 1))

\* await collection.drop_index(index_name) of one of indexes_to_remove
TaskDrop(t) ==
    /\ tasks[t].pc = "drop"
    /\ \E n \in tasks[t].todo :
         TaskSynced(t, drop_index(SyncStart(indexes), n),
                    IF tasks[t].todo = {n} THEN [tasks[t] EXCEPT !.pc = "synced", !.todo = {}]
                    ELSE [tasks[t] EXCEPT !.todo = @ \ {n}])

\* the operation of task t returned or raised r, flag being the created /
\* updated flag of its tuple
TaskReturned(t, r, flag) ==
    /\ coll' = r.coll
    /\ nextOid' = NextFree(r.coll, nextOid)
    /\ tasks' = [tasks EXCEPT ![t] = [@ EXCEPT !.pc = "done", !.raised = r.raised,
                                               !.flag = flag /\ r.raised = "", !.rid = r.id]]
    /\ UNCHANGED <<klass, focus, clock, obj, last, indexes, indexes_created, db, connected>>

\* update_one: await collection.find_one_and_update(...)
TaskUpdateOneWrite(t) ==
    /\ tasks[t].pc = "write" /\ tasks[t].op = "update_one"
    /\ \E id \in Picked(coll, convert_id(tasks[t].query)) :
         TaskReturned(t, update_one(klass, tasks[t].query, tasks[t].update, coll, id,
                                    clock + 1, nextOid),
                      FALSE)

\* find_one_or_create: await cls.find_one(query); a match is returned
TaskFindOneOrCreateFind(t) ==
    /\ tasks[t].pc = "find" /\ tasks[t].op = "find_one_or_create"
    /\ \E id \in Picked(coll, tasks[t].query) :
         IF id = 0
         THEN /\ tasks' = [tasks EXCEPT ![t].pc = "insert"]
              /\ UNCHANGED <<klass, focus, coll, nextOid, clock, obj, last, indexes,
                             indexes_created, db, connected>>
         ELSE TaskReturned(t, find_one_or_create(klass, tasks[t].query, tasks[t].update, coll,
                                                 id, clock + 1, nextOid),
                           FALSE)

\* find_one_or_create: await cls.insert_one({**query, **defaults})
TaskFindOneOrCreateInsert(t) ==
    /\ tasks[t].pc = "insert"
    /\ TaskReturned(t, find_one_or_create(klass, tasks[t].query, tasks[t].update, coll,
                                          0, clock + 1, nextOid),
                    TRUE)

\* find_one_and_update_empty_fields: await cls.find_one(query) and the
\* comprehension; with fields to update it calls update_one
TaskEmptyFieldsFind(t) ==
    /\ tasks[t].pc = "find" /\ tasks[t].op = "find_one_and_update_empty_fields"
    /\ \E id \in Picked(coll, tasks[t].query) :
         IF id # 0 /\ DOMAIN fields_to_update(coll[id], tasks[t].query, tasks[t].update) # {}
         THEN /\ tasks' = [tasks EXCEPT ![t] =
                             [@ EXCEPT !.pc = "ensure", !.id = id,
                                       !.fields = fields_to_update(coll[id], tasks[t].query,
                                                                   tasks[t].update)]]
              /\ UNCHANGED <<klass, focus, coll, nextOid, clock, obj, last, indexes,
                             indexes_created, db, connected>>
         ELSE TaskReturned(t, find_one_and_update_empty_fields(klass, tasks[t].query,
                                  tasks[t].update, coll, id, id, clock + 1, nextOid),
                           FALSE)

\* find_one_and_update_empty_fields: the find_one_and_update of its
\* update_one(query, fields_to_update)
TaskEmptyFieldsWrite(t) ==
    /\ tasks[t].pc = "write" /\ tasks[t].op = "find_one_and_update_empty_fields"
    /\ \E id2 \in Picked(coll, convert_id(tasks[t].query)) :
         TaskReturned(t, find_one_and_update_empty_fields_update(klass, tasks[t].query,
                              tasks[t].fields, coll, tasks[t].id, id2, clock + 1, nextOid),
                      TRUE)

\* the classes, filters and fields of the concurrent callers
TaskClasses == {"User", "Session"}
TaskQueries(c) ==
    IF c = "User" THEN {[username |-> PyStr(s_joe)]}
    ELSE {[_id |-> Oid(1)], [is_active |-> PyBool(FALSE)]}
TaskUpdates(c) ==
    IF c = "User" THEN {[age |-> PyInt(69)], [alive |-> PyBool(FALSE)]}
    ELSE {[is_active |-> PyBool(TRUE)], [created_at |-> PyDatetime(5)]}
TaskEmptyFields(c) ==
    IF c = "User" THEN {[age |-> PyInt(70)]} ELSE {[is_active |-> PyBool(TRUE)]}
\* the collection the callers start on: empty, or holding one inserted document
TaskStored(c) ==
    {EmptyDict} \cup
    {insert_one(c, document, EmptyDict, 0, 1).coll :
        document \in (IF c = "User" THEN {[username |-> PyStr(s_joe)]}
                      ELSE {EmptyDict, [created_at |-> PyDatetime(5)]})}

UpdateOneStart ==
    \E t \in TaskNames, query \in TaskQueries(klass), update_fields \in TaskUpdates(klass) :
        TaskStart(t, "update_one", query, update_fields)
FindOneOrCreateStart ==
    \E t \in TaskNames, query \in TaskQueries(klass) :
        TaskStart(t, "find_one_or_create", query, EmptyDict)
EmptyFieldsStart ==
    \E query \in TaskQueries(klass), update_fields \in TaskEmptyFields(klass) :
        TaskStart("a", "find_one_and_update_empty_fields", query, update_fields)
TaskEnsureStep == \E t \in TaskNames : TaskEnsure(t)
TaskListStep == \E t \in TaskNames : TaskList(t)
TaskCreateStep == \E t \in TaskNames : TaskCreate(t)
TaskDropStep == \E t \in TaskNames : TaskDrop(t)
TaskUpdateOneWriteStep == \E t \in TaskNames : TaskUpdateOneWrite(t)
TaskFindOneOrCreateFindStep == \E t \in TaskNames : TaskFindOneOrCreateFind(t)
TaskFindOneOrCreateInsertStep == \E t \in TaskNames : TaskFindOneOrCreateInsert(t)
TaskEmptyFieldsFindStep == \E t \in TaskNames : TaskEmptyFieldsFind(t)
TaskEmptyFieldsWriteStep == \E t \in TaskNames : TaskEmptyFieldsWrite(t)

\* the class is either not synchronised yet, or was synchronised by an
\* earlier operation
InitTasks ==
    /\ klass \in TaskClasses
    /\ focus = ""
    /\ coll \in TaskStored(klass)
    /\ nextOid = NextFree(coll, 1)
    /\ clock = 0
    /\ obj = NoneV
    /\ last = LastBase
    /\ \/ indexes \in PriorIndexes /\ indexes_created = FALSE
       \/ /\ indexes = create_indexes_for_document(Classes[klass], {<<"_id_">>})
          /\ indexes_created = TRUE
    /\ connected = TRUE
    /\ tasks = [t \in TaskNames |-> Idle]
    /\ db = EmptyDict

NextTasks ==
    \/ UpdateOneStart
    \/ FindOneOrCreateStart
    \/ EmptyFieldsStart
    \/ TaskEnsureStep
    \/ TaskListStep
    \/ TaskCreateStep
    \/ TaskDropStep
    \/ TaskUpdateOneWriteStep
    \/ TaskFindOneOrCreateFindStep
    \/ TaskFindOneOrCreateInsertStep
    \/ TaskEmptyFieldsFindStep
    \/ TaskEmptyFieldsWriteStep

SpecTasks == InitTasks /\ [][NextTasks]_vars

(* ------------------------------ properties ---------------------------- *)
\* a step in which the operation op was called
Calls(op) == last'.op = op /\ last'.now = clock + 1
\* the classes whose Meta sets the timestamp flag
CreatedAtEnabled == MetaFlagSet(klass, "created_at_timestamp")
UpdatedAtEnabled == MetaFlagSet(klass, "updated_at_timestamp")

\* C1: save() on an instance without _id performs exactly one insert and
\* sets the instance's _id to the identity the database assigned; save() on
\* an instance with an _id replaces the document with that identity and
\* never inserts. So the collection holds at most one document inserted for
\* the instance, and the instance's _id never changes once assigned.
C1_SaveStep ==
    /\ (Calls("save") /\ IsNew(obj.d)) =>
            /\ last'.path = "insert"
            /\ last'.id \notin DOMAIN coll
            /\ DOMAIN coll' = (DOMAIN coll) \cup {last'.id}
            /\ \A i \in DOMAIN coll : coll'[i] = coll[i]
            /\ ~IsNew(obj'.d) /\ obj'.d["_id"] = Oid(last'.id)
    /\ (Calls("save") /\ ~IsNew(obj.d)) =>
            /\ last'.path = "replace"
            /\ DOMAIN coll' = DOMAIN coll
            /\ \A i \in (DOMAIN coll) \ {obj.d["_id"].v} : coll'[i] = coll[i]
            /\ obj.d["_id"].v \in DOMAIN coll =>
                    coll'[obj.d["_id"].v] = Put(last'.written, "_id", obj.d["_id"])
    /\ ((Calls("save") \/ Calls("setattr")) /\ ~IsNew(obj.d)) =>
            ~IsNew(obj'.d) /\ obj'.d["_id"] = obj.d["_id"]
    /\ obj' # NoneV => Cardinality(obj'.saved) <= 1
C1_SaveInsertsOnceThenReplaces == [][C1_SaveStep]_vars
\* an instance was inserted by a first save() and replaced by a second one
C1_Witness ==
    /\ last.op = "save" /\ last.path = "replace" /\ last.id # 0
    /\ obj.saved = {last.id}

\* C2: for a class with both timestamps enabled, the instance returned by
\* insert_one has an _id, and its to_dict() contains created_at, updated_at
\* and every input key that is a declared field.
C2_InsertOneResultComplete ==
    (last.op = "insert_one" /\ last.raised = "" /\ CreatedAtEnabled /\ UpdatedAtEnabled) =>
        /\ last.result # NoneV
        /\ {"_id", "created_at", "updated_at"} \subseteq DOMAIN to_dict(klass, last.result.d, TRUE)
        /\ (DOMAIN last.kwargs) \cap (DOMAIN Classes[klass].decl)
                \subseteq DOMAIN to_dict(klass, last.result.d, TRUE)

\* the required fields of the class that kwargs omits, without / with a default
RequiredOmitted(kwargs, withDefault) ==
    {n \in DOMAIN Classes[klass].decl :
        /\ Classes[klass].decl[n].required
        /\ n \notin DOMAIN kwargs
        /\ (Classes[klass].decl[n].default # NoneV) = withDefault}

\* C3: constructing (or insert_one on) a class with a required field that is
\* omitted and has no default raises a validation error and inserts nothing;
\* with a default the construction succeeds and the field takes the default.
C3_RequiredFieldEnforced ==
    (last.op \in {"construct", "insert_one"}) =>
        /\ RequiredOmitted(last.kwargs, FALSE) # {} =>
                last.raised # "" /\ last.id = 0 /\ last.result = NoneV
        /\ (RequiredOmitted(last.kwargs, FALSE) = {} /\ last.raised = "") =>
                \A n \in RequiredOmitted(last.kwargs, TRUE) :
                    /\ n \in DOMAIN last.result.d
                    /\ last.result.d[n] = Classes[klass].decl[n].default

\* C4: update_one changes, in the matched stored document, only the fields
\* named in update_fields and updated_at; every other stored field keeps its
\* value, and _id is never written or changed.
C4_UpdateOneStep ==
    (Calls("update_one") /\ last'.id # 0) =>
        /\ DOMAIN coll' = DOMAIN coll
        /\ \A i \in (DOMAIN coll) \ {last'.id} : coll'[i] = coll[i]
        /\ \A k \in (DOMAIN coll[last'.id]) \ ((DOMAIN last'.update) \cup {"updated_at"}) :
                k \in DOMAIN coll'[last'.id] /\ coll'[last'.id][k] = coll[last'.id][k]
        /\ "_id" \notin DOMAIN last'.written
        /\ coll'[last'.id]["_id"] = coll[last'.id]["_id"]
C4_UpdateOneFrame == [][C4_UpdateOneStep]_vars

\* C5: the post-image update_one returns has every non-identity key of
\* update_fields at the given value, including a key that also appears in
\* the query.
C5_UpdateOnePostImage ==
    (last.op = "update_one" /\ last.raised = "" /\ last.result # NoneV) =>
        \A k \in (DOMAIN last.update) \ {"_id"} :
            k \in DOMAIN last.result.d /\ last.result.d[k] = last.update[k]

\* C6: for a class with created_at_timestamp enabled, the stored created_at
\* of a document never changes after its creation: no operation re-stamps or
\* removes it.
C6_CreatedAtStep ==
    CreatedAtEnabled =>
        \A i \in (DOMAIN coll) \cap (DOMAIN coll') :
            "created_at" \in DOMAIN coll[i] =>
                "created_at" \in DOMAIN coll'[i] /\ coll'[i]["created_at"] = coll[i]["created_at"]
C6_CreatedAtImmutable == [][C6_CreatedAtStep]_vars

\* C7: for a class with updated_at_timestamp enabled, every create or update
\* operation leaves the document it wrote with the updated_at of that
\* operation, which is later than that of any earlier operation.
C7_UpdatedAtStamped ==
    (/\ UpdatedAtEnabled
     /\ last.op \in {"insert_one", "save", "update_one", "find_one_and_replace"}
     /\ last.raised = "" /\ last.id # 0) =>
        /\ "updated_at" \in DOMAIN coll[last.id]
        /\ coll[last.id]["updated_at"] = PyDatetime(last.now)

\* C8: for a class that does not set a timestamp flag to true, no operation
\* writes a created_at or updated_at that neither the caller supplied nor the
\* class declares as a field.
C8_NoTimestampsUnlessOptedIn ==
    (~CreatedAtEnabled /\ ~UpdatedAtEnabled) =>
        \A k \in {"created_at", "updated_at"} \cap DOMAIN last.written :
            \/ k \in (DOMAIN last.kwargs) \cup (DOMAIN last.update)
            \/ k \in DOMAIN Classes[klass].decl
            \/ (last.op = "save" /\ k \in DOMAIN last.result.d)

\* a value v that satisfies the type and the constraints of the field f
RECURSIVE Valid(_, _)
Valid(f, v) ==
    CASE f.kind = "String" ->
            /\ v.t = "str"
            /\ f.min_length # NoneV => Len(v.v) >= Num(f.min_length)
            /\ f.max_length # NoneV => Len(v.v) <= Num(f.max_length)
      [] f.kind = "Integer" ->
            /\ v.t \in {"int", "bool"}
            /\ f.min_value # NoneV => Num(v) >= Num(f.min_value)
            /\ f.max_value # NoneV => Num(v) <= Num(f.max_value)
      [] f.kind = "Boolean" -> v.t = "bool"
      [] f.kind = "Float" ->
            /\ v.t \in {"float", "int"}
            /\ f.min_value # NoneV => Num(v) >= Num(f.min_value)
            /\ f.max_value # NoneV => Num(v) <= Num(f.max_value)
      [] f.kind = "DateTime" -> v.t = "datetime"
      [] f.kind = "Enum" -> v.t = "enum" /\ v.e = f.enum
      [] f.kind = "GeoJSON" ->
            /\ v.t = "dict"
            /\ "coordinates" \in DOMAIN v.v
            /\ GeoInRange(v.v["coordinates"].v)
      [] f.kind = "List" ->
            /\ v.t = "list"
            /\ f.field # NoneV => \A i \in 1..Len(v.v) : Valid(f.field, v.v[i])
      [] f.kind = "Reference" -> v.t = "oid"
      [] f.kind = "EmbeddedDocument" ->
            /\ v.t = "inst" /\ v.c = f.document
            /\ \A n \in (DOMAIN v.d) \cap (DOMAIN Classes[v.c].decl) :
                    Valid(Classes[v.c].decl[n], v.d[n])

\* C9: after any construction or assignment, every value stored for a
\* declared field satisfies the field's type and constraints, the elements of
\* a list those of its item field of whatever kind; an assignment that
\* raises leaves the instance as it was.
C9_FieldStep ==
    /\ obj' # NoneV =>
            \A n \in (DOMAIN obj'.d) \cap (DOMAIN Classes[obj'.c].decl) :
                Valid(Classes[obj'.c].decl[n], obj'.d[n])
    /\ (Calls("setattr") /\ last'.raised # "") => obj' = obj
C9_StoredValuesValid == [][C9_FieldStep]_vars

\* the field kinds the round trip is stated for
RoundTripKinds ==
    {"String", "Integer", "Boolean", "Enum", "GeoJSON", "List", "Reference", "EmbeddedDocument"}
\* the re-construction r succeeded and gave the __dict__ d
RoundTrips(d, r) == r.ok /\ r.v = d

\* C10: for an instance built from accepted values of a string, integer,
\* boolean, enum, geo, list, reference or embedded field, from_dict of its
\* to_dict() succeeds and gives equal field values and an equal identity,
\* for id_as_string true and false.
C10_ToDictFromDictRoundTrip ==
    (obj # NoneV /\ Classes[klass].decl[focus].kind \in RoundTripKinds) =>
        \A id_as_string \in BOOLEAN :
            RoundTrips(obj.d, from_dict(obj.c, to_dict(obj.c, obj.d, id_as_string),
                                        clock + 1, nextOid))

\* the records of the batch that Document.__init__ refuses
Refused(documents) ==
    {i \in 1..Len(documents) : ~from_dict(klass, documents[i], clock + 1, nextOid).ok}
\* the elements of a sequence
Range(seq) == {seq[i] : i \in 1..Len(seq)}

\* C11: insert_many validates every record before writing: when a record is
\* refused the call raises and the collection is unchanged; when every
\* record validates and the driver accepts the batch, the call returns one
\* hydrated instance and one identity per record, and the collection gains
\* exactly these documents.
C11_InsertManyStep ==
    Calls("insert_many") =>
        /\ Refused(last'.documents) # {} => (last'.raised # "" /\ coll' = coll)
        /\ (Refused(last'.documents) = {} /\ last'.raised = "") =>
                /\ Len(last'.results) = Len(last'.documents)
                /\ Len(last'.ids) = Len(last'.documents)
                /\ Cardinality(Range(last'.ids)) = Len(last'.documents)
                /\ Range(last'.ids) \cap DOMAIN coll = {}
                /\ DOMAIN coll' = (DOMAIN coll) \cup Range(last'.ids)
                /\ \A i \in DOMAIN coll : coll'[i] = coll[i]
                /\ \A i \in 1..Len(last'.documents) :
                        /\ last'.results[i].c = klass
                        /\ last'.results[i].d["_id"] = Oid(last'.ids[i])
                        /\ \A k \in (DOMAIN last'.documents[i]) \ {"_id"} :
                                coll'[last'.ids[i]][k] = last'.documents[i][k]
C12_FindOneOrCreateStep ==
    (/\ last.op = "find_one_or_create" /\ last.raised = "" /\ last.flag
     /\ Calls("find_one_or_create")
     /\ last'.query = last.query /\ last'.update = last.update) =>
        /\ last'.raised = "" /\ ~last'.flag
        /\ last'.id = last.id
        /\ coll' = coll
C12_FindOneOrCreateIdempotent == [][C12_FindOneOrCreateStep]_vars

\* C13: find_one_and_update_empty_fields on the one stored document a query
\* matches sets exactly the given fields that the document lacks or holds a
\* falsy value for (updated_at apart), and answers updated = True exactly
\* when there is such a field; the same call made again at once answers
\* updated = False and leaves the collection as it is
C13_Expected(existing_doc, fields, k) ==
    IF k \in DOMAIN fields THEN Ok(fields[k])
    ELSE IF k \in DOMAIN existing_doc THEN Ok(existing_doc[k]) ELSE Raise("absent")
C13_Stored(document, k) == IF k \in DOMAIN document THEN Ok(document[k]) ELSE Raise("absent")
C13_Sets(id, fields) ==
    /\ last'.flag = (DOMAIN fields # {})
    /\ DOMAIN coll' = DOMAIN coll
    /\ \A i \in DOMAIN coll \ {id} : coll'[i] = coll[i]
    /\ \A k \in (DOMAIN coll[id] \cup DOMAIN coll'[id]) \ {"updated_at"} :
          C13_Stored(coll'[id], k) = C13_Expected(coll[id], fields, k)
C13_EmptyFieldsStep ==
    /\ (/\ Calls("find_one_and_update_empty_fields")
        /\ last'.raised = ""
        /\ Cardinality(Matching(coll, last'.query)) = 1) =>
            \A id \in Matching(coll, last'.query) :
                C13_Sets(id, fields_to_update(coll[id], last'.query, last'.update))
    /\ (/\ last.op = "find_one_and_update_empty_fields" /\ last.raised = ""
        /\ Calls("find_one_and_update_empty_fields")
        /\ last'.query = last.query /\ last'.update = last.update) =>
            /\ last'.raised = "" /\ ~last'.flag
            /\ coll' = coll
C13_UpdateEmptyFieldsIdempotent == [][C13_EmptyFieldsStep]_vars

\* C14: find_many without a limit on a base class with two subclasses stored
\* in two collections does not raise and returns every matching document of
\* both collections exactly once, each as an instance of the subclass whose
\* collection holds it, carrying the stored values of that subclass's fields,
\* and returns nothing else
C14_Hydrated(inst, subcls, document) ==
    /\ inst.t = "inst" /\ inst.c = subcls
    /\ inst.d["_id"] = document["_id"]
    /\ \A k \in DOMAIN document \cap DOMAIN Classes[subcls].decl : inst.d[k] = document[k]
C14_Holder(inst) ==
    {i \in 1..Len(get_collection_name(klass)) :
        inst.d["_id"].v \in DOMAIN db[get_collection_name(klass)[i][2]]}
C14_FindManyStep ==
    (/\ Calls("find_many") /\ Len(Classes[klass].subclasses) = 2
     /\ last'.limit = NoneV) =>
        /\ last'.raised = ""
        /\ \A i \in 1..Len(get_collection_name(klass)) :
             \A id \in Matching(db[get_collection_name(klass)[i][2]], last'.query) :
                /\ Cardinality({j \in DOMAIN last'.results :
                                   last'.results[j].d["_id"] = Oid(id)}) = 1
                /\ \A j \in DOMAIN last'.results :
                      last'.results[j].d["_id"] = Oid(id) =>
                          C14_Hydrated(last'.results[j], get_collection_name(klass)[i][1],
                                       db[get_collection_name(klass)[i][2]][id])
        /\ \A j \in DOMAIN last'.results :
             \E i \in C14_Holder(last'.results[j]) :
                Matches(db[get_collection_name(klass)[i][2]][last'.results[j].d["_id"].v],
                        last'.query)
        /\ db' = db
C14_FindManyFansOut == [][C14_FindManyStep]_vars

\* a base-class find_many answered with one document of each subclass
C14_Witness ==
    /\ last.op = "find_many" /\ last.raised = "" /\ last.limit = NoneV
    /\ klass = "Item"
    /\ \E i, j \in DOMAIN last.results :
          last.results[i].c = "Book" /\ last.results[j].c = "Electronics"

\* C15: find_one on a base class with subclasses does not raise: it returns
\* None when no subclass collection holds a document matching the filter,
\* and otherwise one of the matching documents as an instance of the
\* subclass whose collection holds it
C15_Matching(i, query) == Matching(db[get_collection_name(klass)[i][2]], convert_id(query))
C15_FindOneOnBaseClass ==
    (last.op = "find_one" /\ Classes[klass].subclasses # <<>>) =>
        /\ last.raised = ""
        /\ last.result = NoneV <=>
              \A i \in 1..Len(get_collection_name(klass)) : C15_Matching(i, last.query) = {}
        /\ last.result # NoneV =>
              \E i \in 1..Len(get_collection_name(klass)) :
                 /\ last.result.c = get_collection_name(klass)[i][1]
                 /\ last.result.d["_id"].v \in C15_Matching(i, last.query)

\* C16: find_many with limit = n returns at most n documents, on a class
\* with one collection and on a base class read from its subclass
\* collections alike; without a limit it returns as many documents as match
C16_Matches(query) ==
    IF Classes[klass].subclasses # <<>>
    THEN UNION {Matching(db[n], query) : n \in DOMAIN db}
    ELSE Matching(coll, query)
C16_FindManyLimit ==
    (last.op = "find_many" /\ last.raised = "") =>
        IF last.limit = NoneV
        THEN Len(last.results) = Cardinality(C16_Matches(last.query))
        ELSE Len(last.results) <= last.limit.v

\* C17: update_many returns the number of documents it modified together
\* with exactly those documents, each once and with its stored values after
\* the update; a document the call left as it was is not returned
C17_Modified == {id \in DOMAIN coll : coll'[id] # coll[id]}
C17_UpdateManyStep ==
    (Calls("update_many") /\ last'.raised = "") =>
        /\ last'.count = Cardinality(C17_Modified)
        /\ Len(last'.results) = Cardinality(C17_Modified)
        /\ \A id \in C17_Modified :
              \E j \in DOMAIN last'.results :
                 /\ last'.results[j].d["_id"] = Oid(id)
                 /\ \A k \in DOMAIN coll'[id] \cap DOMAIN Classes[klass].decl :
                       last'.results[j].d[k] = coll'[id][k]
C17_UpdateManyReturnsModified == [][C17_UpdateManyStep]_vars

\* C18: find_one, update_one, delete_one and delete_many given a filter whose
\* `_id` is the string form of an identity select the documents that the
\* same filter with the native identity selects: delete_many deletes all of
\* them and counts them, delete_one deletes one of them and answers whether
\* there was one, find_one and update_one answer one of them or None
C18_Native(query) ==
    [k \in DOMAIN query |->
        IF k = "_id" /\ query[k].t = "str" THEN Oid(ParseOid(query[k].v)) ELSE query[k]]
C18_Selected == Matching(coll, C18_Native(last'.query))
C18_IdentityStep ==
    last'.raised = "" =>
        /\ Calls("delete_many") =>
              /\ coll' = [k \in (DOMAIN coll) \ C18_Selected |-> coll[k]]
              /\ last'.count = Cardinality(C18_Selected)
        /\ Calls("delete_one") =>
              /\ last'.flag = (C18_Selected # {})
              /\ \E id \in Picked(coll, C18_Native(last'.query)) :
                    coll' = [k \in (DOMAIN coll) \ {id} |-> coll[k]]
        /\ Calls("find_one") =>
              /\ last'.result = NoneV <=> C18_Selected = {}
              /\ last'.result # NoneV => last'.result.d["_id"].v \in C18_Selected
        /\ Calls("update_one") =>
              /\ last'.id = 0 <=> C18_Selected = {}
              /\ last'.id # 0 => last'.id \in C18_Selected
C18_IdentityStringSelectsSame == [][C18_IdentityStep]_vars

\* C19: when no stored document matches the query, find_one_and_delete and
\* find_one_and_update_empty_fields raise DocumentNotFoundError and leave the
\* collection as it is, find_one returns None and find_many an empty list
C19_NoMatch == Matching(coll, C18_Native(last'.query)) = {}
C19_NotFoundStep ==
    (C19_NoMatch /\ Classes[klass].subclasses = <<>>) =>
        /\ (Calls("find_one_and_delete") \/ Calls("find_one_and_update_empty_fields")) =>
              /\ last'.raised = "DocumentNotFoundError"
              /\ coll' = coll
        /\ Calls("find_one") => last'.raised = "" /\ last'.result = NoneV
        /\ Calls("find_many") => last'.raised = "" /\ last'.results = <<>>
C19_NotFoundIsReported == [][C19_NotFoundStep]_vars

\* C20: when the payload of insert_one, of update_one or a record of
\* insert_many fails the validation of a field, the caller gets the error of
\* that field, and the collection is as it was
C20_FieldErrors ==
    {"BooleanFieldError", "DateTimeFormatError", "DateTimeValueError",
     "EmbeddedDocumentTypeError", "FloatRangeError", "FloatValueError", "GeoCoordinateError",
     "IntegerRangeError", "IntegerValueError", "InvalidEnumTypeError", "InvalidEnumValueError",
     "ListItemTypeError", "ListValueTypeError", "ReferenceConversionError",
     "ReferenceTypeError", "StringLengthError", "StringValueError"}
C20_Error(payload) ==
    IF from_dict(klass, payload, clock + 1, nextOid).ok THEN ""
    ELSE from_dict(klass, payload, clock + 1, nextOid).err
C20_Propagated(payload) ==
    C20_Error(payload) \in C20_FieldErrors =>
        /\ last'.raised = C20_Error(payload)
        /\ coll' = coll
C20_ValidationStep ==
    /\ Calls("insert_one") => C20_Propagated(last'.kwargs)
    /\ Calls("update_one") => C20_Propagated(last'.update)
    /\ Calls("insert_many") =>
          \A i \in DOMAIN last'.documents :
             (\A j \in 1..(i - 1) : C20_Error(last'.documents[j]) = "") =>
                 C20_Propagated(last'.documents[i])
C20_FieldErrorsPropagate == [][C20_ValidationStep]_vars

\* C28: a value given to a DateTime field declared with auto_now, at
\* construction or by a later assignment, is replaced by the time of the
\* assignment
C28_AutoNowFields == {n \in DOMAIN Classes[klass].decl : Classes[klass].decl[n].auto_now}
C28_AutoNowStep ==
    ((Calls("construct") \/ Calls("setattr")) /\ last'.raised = "") =>
        \A n \in C28_AutoNowFields \cap DOMAIN last'.kwargs :
            obj'.d[n] = PyDatetime(clock + 1)
C28_AutoNowReplacesValue == [][C28_AutoNowStep]_vars

\* C24: no operation on an EmbeddedDocument subclass writes to a collection
\* named after the embedded type: that collection stays empty
C24_EmbeddedHasNoCollection ==
    Classes[klass].embedded => coll = EmptyDict

\* C21: after a synchronisation of a class that completes without an error,
\* the indexes on its collection are exactly the default identity index, one
\* unique index per unique field and one index per Meta.indexes entry: every
\* declared index is there and every other earlier index is gone; the
\* identity index is never dropped
C21_Expected ==
    {<<"_id_">>} \cup {<<n, "unique">> : n \in UniqueFields(Classes[klass])}
                \cup {ActualIndexName(ix) : ix \in DeclaredIndexes(Classes[klass])}
C21_Synchronised ==
    /\ Calls("create_indexes_for_document") \/ Calls("ensure_indexes")
    /\ last'.synced
    /\ last'.raised = ""
    /\ \A i \in 1..Len(last'.calls) : last'.calls[i].outcome = "ok"
C21_SyncStep ==
    /\ C21_Synchronised => indexes' = C21_Expected
    /\ <<"_id_">> \in indexes'
C21_IndexesMatchDeclaration == [][C21_SyncStep]_vars

\* C22: a synchronisation that directly follows a successful one of the same
\* class issues no create_index and no drop_index call, also when a declared
\* index has no explicit name or a direction other than ascending
C22_SecondRun ==
    /\ last.op = "create_indexes_for_document"
    /\ last.synced /\ last.raised = ""
    /\ \A i \in 1..Len(last.calls) : last.calls[i].outcome = "ok"
    /\ Calls("create_indexes_for_document")
    /\ last'.synced
C22_SecondRunStep == C22_SecondRun => last'.calls = <<>>
C22_SecondSyncIssuesNoCalls == [][C22_SecondRunStep]_vars

\* C23: a create_index failure is survived by the synchronisation exactly
\* when it is the tier failure of a declared index; any other failure, of a
\* unique-field index or of a declared one, is raised to the caller
C23_OtherFailure ==
    \E i \in 1..Len(last'.calls) :
        /\ last'.calls[i].call = "create_index"
        /\ last'.calls[i].outcome \in {"failure", "error"}
C23_OnlyTierFailures ==
    \A i \in 1..Len(last'.calls) :
        \/ last'.calls[i].outcome = "ok"
        \/ last'.calls[i].kind = "declared" /\ last'.calls[i].outcome = "tier"
C23_FailureStep ==
    (Calls("create_indexes_for_document") /\ last'.synced) =>
        /\ C23_OtherFailure => last'.raised # ""
        /\ C23_OnlyTierFailures => last'.raised = ""
C23_OnlyTierFailureSurvived == [][C23_FailureStep]_vars

\* C27: while connected a class is synchronised at most once, later
\* ensure_indexes calls issue no index call; after close() and a fresh
\* connect() the next ensure_indexes synchronises the class again
C27_EnsureStep ==
    Calls("ensure_indexes") =>
        /\ (indexes_created /\ last.op # "connect") =>
                (~last'.synced /\ last'.calls = <<>>)
        /\ (last.op = "connect" /\ last.flag) => last'.synced
C27_SyncOncePerConnection == [][C27_EnsureStep]_vars

\* C25: two concurrent update_one calls on the same document that name
\* different fields both take effect, whatever their interleaving: the
\* document carries the values of both callers once both have returned
C25_BothUpdated ==
    /\ \A t \in TaskNames :
        tasks[t].op = "update_one" /\ tasks[t].pc = "done" /\ tasks[t].raised = ""
    /\ tasks["a"].rid # 0 /\ tasks["a"].rid = tasks["b"].rid
    /\ DOMAIN tasks["a"].update \cap DOMAIN tasks["b"].update = {}
C25_ConcurrentUpdatesKept ==
    C25_BothUpdated =>
        \A t \in TaskNames : \A k \in DOMAIN tasks[t].update :
            /\ k \in DOMAIN coll[tasks[t].rid]
            /\ coll[tasks[t].rid][k] = tasks[t].update[k]

\* C26: two tasks that both found _indexes_created unset and synchronised
\* the same class concurrently both finish the synchronisation without an
\* error, and the collection then carries the indexes a single
\* synchronisation leaves, also when an undeclared index was there before
C26_BothSynchronised ==
    \A t \in TaskNames :
        /\ tasks[t].op = "update_one"
        /\ tasks[t].existing # {}
        /\ tasks[t].pc \in {"write", "done"}
C26_ConcurrentSyncAgrees ==
    C26_BothSynchronised =>
        /\ \A t \in TaskNames : tasks[t].raised # "OperationFailure"
        /\ indexes \in {create_indexes_for_document(Classes[klass], p) : p \in PriorIndexes}

\* C29: two concurrent find_one_or_create calls with the same query create
\* at most one document: at most one of them returns created = True
C29_BothReturned ==
    /\ \A t \in TaskNames : tasks[t].op = "find_one_or_create" /\ tasks[t].pc = "done"
    /\ tasks["a"].query = tasks["b"].query
C29_AtMostOneCreated ==
    C29_BothReturned => ~(tasks["a"].flag /\ tasks["b"].flag)

\* C30: the write of find_one_and_update_empty_fields changes no field that
\* holds a truthy value at the moment of the write, a field with a declared
\* default that update_fields does not name and a field that a concurrent
\* update_one filled after the read included (the update timestamp apart)
C30_Write(t) ==
    /\ tasks[t].op = "find_one_and_update_empty_fields"
    /\ tasks[t].pc = "write"
    /\ tasks'[t].pc = "done"
C30_WriteStep ==
    \A t \in TaskNames :
        C30_Write(t) =>
            \A id \in DOMAIN coll : \A k \in DOMAIN coll[id] \ {"updated_at"} :
                Truthy(coll[id][k]) =>
                    /\ id \in DOMAIN coll'
                    /\ k \in DOMAIN coll'[id]
                    /\ coll'[id][k] = coll[id][k]
C30_TruthyFieldsKept == [][C30_WriteStep]_vars
====
